---- MODULE Spec2Model ----
\* Embedding synchronisation engine of tiddlywiki-mcp: the SyncWorker
\* reconciliation loop (src/src/embeddings/database.ts, second half), the
\* EmbeddingsDB vector store and status ledger (same file, first half) and the
\* document-store / embedding-service calls they await.
\*
\* Concurrency model: one Node.js event loop.  Every action below is one
\* run-to-completion continuation: it starts where an awaited promise settles
\* (or where a timer / caller enters) and runs to the next await.
EXTENDS Integers, Sequences, FiniteSets, TLC

\* ---------------------------------------------------------------- bounds
MaxEdits == 2        \* writes the outside world makes to the document store
MaxTime == 2         \* wall clock runs 0..MaxTime ticks of MsPerTick
MaxParagraphs == 2   \* chunk-sized paragraphs of a long document
MaxBatch == 2        \* largest configured batchSize
MaxStarts == 1       \* start() calls made by the host process
MaxCalls == 2        \* runSync invocations that can be suspended at once
MaxLimit == 2         \* largest limit a search request carries
MaxChars == 7         \* characters of a text handed to chunkText
MaxTokens == 3        \* largest maxTokens handed to chunkText
MaxResolves == 3      \* getBaseUrl calls made
MaxClock == 3         \* the clock of getBaseUrl runs 0..MaxClock steps of MsPerStep
MaxResults == 150     \* results of one search handed to the size check

\* ------------------------------------------------------------- constants
MISSING_TIMESTAMP == "00000000000000000"
RETRY_ERROR_AFTER_MS == 24 * 60 * 60 * 1000
MsPerHour == 60 * 60 * 1000
MsPerTick == 16 * MsPerHour    \* the clock is observed every 16 hours

Undefined == "undefined"       \* a field that is absent from a JS object
NoError == "null"              \* error_message NULL
EmbeddingError == "Ollama API error"
InsertError == "vector insert failed"

\* search-tiddlers.ts: the response budget and the default semantic limit
MAX_RESPONSE_TOKENS == 23000
DefaultLimit == 10

\* OllamaClient.chunkText: the size of a chunk, here of one paragraph of text
maxTokens == 6000

\* both dependencies of the tool handlers exist
Initialised == [embeddingsDB |-> TRUE, ollamaClient |-> TRUE]

\* ---------------------------------------------------------------- titles
\* Titles are strings; TitleChars spells each one so that startsWith and
\* includes can be computed on it.
Titles == {"A", "B", "/p.tid", "c.tidy"}

TitleChars(t) ==
  CASE t = "A" -> <<"A">>
    [] t = "B" -> <<"B">>
    [] t = "/p.tid" -> <<"/", "p", ".", "t", "i", "d">>
    [] t = "c.tidy" -> <<"c", ".", "t", "i", "d", "y">>

\* the order of '[!is[system]sort[title]]'
TitleOrder == <<"/p.tid", "A", "B", "c.tidy">>

startsWith(s, prefix) ==
  /\ Len(prefix) <= Len(s)
  /\ SubSeq(s, 1, Len(prefix)) = prefix

includes(s, sub) ==
  \E k \in 1..(Len(s) - Len(sub) + 1) : SubSeq(s, k, k + Len(sub) - 1) = sub

\* runSync's filter: keeps t when it holds
validTiddler(t) ==
  /\ ~startsWith(TitleChars(t), <<"/">>)
  /\ ~includes(TitleChars(t), <<".", "t", "i", "d">>)

\* the titles of documents, as opposed to paths of files
LogicalTitles == {t \in Titles : validTiddler(t)}

\* ------------------------------------------------------------ data types
Tokens == {"T1", "T2"}
Modifieds == Tokens \cup {Undefined}
\* a text is written as its number of chunk-sized paragraphs: the empty
\* string '', a text of one chunk, and a long text
Texts == {0, 1, MaxParagraphs}

AbsentDoc == [exists |-> FALSE, text |-> 0, modified |-> Undefined]
Docs == {AbsentDoc} \cup [exists : {TRUE}, text : Texts, modified : Modifieds]

NoStatus ==
  [exists |-> FALSE, last_modified |-> "", last_indexed |-> 0,
   total_chunks |-> 0, status |-> "", error_message |-> NoError]

NoProc == [st |-> "none", text |-> 0, modified |-> Undefined]

ZeroStats == [indexed |-> 0, empty |-> 0, error |-> 0]

Slots == 1..MaxCalls
TzOffsets == {-8, 0, 9}         \* local time minus UTC, in hours

\* JS `x || d` on an optional string
OrElse(x, d) == IF x = Undefined \/ x = "" THEN d ELSE x

\* `modified || ''`: an absent token is stored as the empty string
normalizeModified_emptyString(modified) == OrElse(modified, "")

\* `modified || MISSING_TIMESTAMP`
normalizeModified(modified) == OrElse(modified, MISSING_TIMESTAMP)

\* JS truthiness of fullTiddler.text
HasText(doc) == doc.exists /\ doc.text # 0

VARIABLES
  docs,          \* document store (external): title -> Doc
  edits,         \* number of outside writes so far
  now,           \* wall clock (UTC), in ticks
  tz,            \* the process's local-time offset
  embeddings,    \* chunk rows: title -> sequence of rows, in insertion order
  syncStatus,    \* sync_status table: title -> row or NoStatus
  batchSize,     \* config.batchSize
  enabled,       \* config.enabled
  isRunning,     \* SyncWorker.isRunning
  intervalId,    \* SyncWorker.intervalId is non-null
  timers,        \* interval timers currently scheduled
  startsPending, \* start() calls suspended at their health check
  startCalls,    \* start() calls made so far
  isSyncing,     \* SyncWorker.isSyncing
  pc,            \* per runSync invocation: "idle", "health", "list", "batch"
  queue,         \* per invocation: tiddlersToIndex
  batchStart,    \* per invocation: loop variable i
  proc,          \* per invocation and title: the indexTiddler call
  stats,         \* per invocation: stats object
  startTime,     \* per invocation: startTime
  before,        \* per invocation: the database as its cycle found it
  outcome,       \* per invocation: how its last cycle ended
  responded,     \* per invocation: the calls whose fetch() has resolved
  skipped,       \* a runSync call met the cycle now in progress and returned
  deps,          \* ToolDependencies: which of embeddingsDB, ollamaClient exist
  reply,         \* the last search_tiddlers request and what the handler did
  other,         \* a second tool call, handled at the same time
  http           \* tiddlywiki-http.ts: baseUrlCache, cacheTime, pendingResolution

vars ==
  <<docs, edits, now, tz, embeddings, syncStatus, batchSize, enabled,
    isRunning, intervalId, timers, startsPending, startCalls, isSyncing,
    pc, queue, batchStart, proc, stats, startTime, before, outcome,
    responded, skipped, deps, reply, other, http>>

envVars == <<docs, edits, now>>
dbVars == <<embeddings, syncStatus>>
configVars == <<tz, batchSize, enabled>>
toolVars == <<deps, reply, other, http>>
lifeVars == <<isRunning, intervalId, timers, startsPending, startCalls>>
cycleVars ==
  <<isSyncing, pc, queue, batchStart, proc, stats, startTime, before, outcome,
    responded>>


\* ------------------------------------------------------- EmbeddingsDB
\* The two tables an EmbeddingsDB holds, as one value.
DB(e, s) == [embeddings |-> e, syncStatus |-> s]

\* Date.now(): milliseconds since the epoch at clock value t
dateNow(t) == t * MsPerTick

\* datetime('now'): the text 'YYYY-MM-DD HH:MM:SS' of the UTC wall clock,
\* written here as the milliseconds that wall-clock reading shows
datetimeNow(t) == dateNow(t)

\* new Date(s).getTime() for s = 'YYYY-MM-DD HH:MM:SS' (no zone designator):
\* the reading is taken as LOCAL time, so the instant is the reading minus
\* the zone offset
dateGetTime(reading, zone) == reading - zone * MsPerHour

insertEmbedding(db, tiddlerTitle, chunkId, chunkTxt, modified) ==
  [db EXCEPT !.embeddings[tiddlerTitle] =
     Append(@, [chunk_id |-> chunkId, chunk_text |-> chunkTxt,
                modified |-> modified])]

\* an upsert that keeps the error message of the record it finds when it is
\* given none
updateSyncStatus_coalesce(db, tiddlerTitle, lastModified, totalChunks, status, errorMessage, t) ==
  [db EXCEPT !.syncStatus[tiddlerTitle] =
     [exists |-> TRUE, last_modified |-> lastModified,
      last_indexed |-> datetimeNow(t), total_chunks |-> totalChunks,
      status |-> status,
      error_message |-> IF errorMessage = NoError /\ @.exists
                        THEN @.error_message ELSE errorMessage]]

\* INSERT OR REPLACE INTO sync_status, whose primary key is tiddler_title
updateSyncStatus(db, tiddlerTitle, lastModified, totalChunks, status, errorMessage, t) ==
  [db EXCEPT !.syncStatus[tiddlerTitle] =
     [exists |-> TRUE, last_modified |-> lastModified,
      last_indexed |-> datetimeNow(t), total_chunks |-> totalChunks,
      status |-> status, error_message |-> errorMessage]]

getSyncStatus(db, tiddlerTitle) == db.syncStatus[tiddlerTitle]

\* a delete that empties both tables
deleteEmbeddingsForTiddler_everyTitle(db, tiddlerTitle) ==
  DB([t \in Titles |-> <<>>], [t \in Titles |-> NoStatus])

\* a delete that clears the status row and leaves the chunk rows in place
deleteEmbeddingsForTiddler_statusOnly(db, tiddlerTitle) ==
  [db EXCEPT !.syncStatus[tiddlerTitle] = NoStatus]

deleteEmbeddingsForTiddler(db, tiddlerTitle) ==
  [db EXCEPT !.embeddings[tiddlerTitle] = <<>>,
             !.syncStatus[tiddlerTitle] = NoStatus]

\* ------------------------------------------------------- OllamaClient
\* chunkText on a text of n chunk-sized paragraphs: one chunk per paragraph
\* (the whole text when it fits); chunk i of text n is written <<n, i>>.
chunkText(text) ==
  [i \in 1..(IF text = 0 THEN 1 ELSE text) |-> <<text, i>>]

\* ------------------------------------------------------- document store
\* queryTiddlers('[!is[system]sort[title]]', false): metadata, no text
Metadata(t) == [title |-> t, modified |-> docs[t].modified]

RECURSIVE listFrom(_)
listFrom(k) ==
  IF k > Len(TitleOrder) THEN <<>>
  ELSE IF docs[TitleOrder[k]].exists
       THEN <<Metadata(TitleOrder[k])>> \o listFrom(k + 1)
       ELSE listFrom(k + 1)

allTiddlers == listFrom(1)

\* ------------------------------------------------------- SyncWorker.runSync
\* a decision that applies the error cooldown before it compares the tokens
shouldIndex_cooldownFirst(db, tiddler, t, zone) ==
  LET syncStatus_ == getSyncStatus(db, tiddler.title)
      tiddlerModified == normalizeModified(tiddler.modified)
  IN  IF ~syncStatus_.exists THEN TRUE
      ELSE IF syncStatus_.status = "error"
           THEN dateNow(t) - dateGetTime(syncStatus_.last_indexed, zone)
                  > RETRY_ERROR_AFTER_MS
           ELSE syncStatus_.last_modified # tiddlerModified

\* a decision that compares the record with the token as listed, absent or not
\* a decision that indexes new titles only and never looks at the token
shouldIndex_newOnly(db, tiddler, t, zone) ==
  ~getSyncStatus(db, tiddler.title).exists

shouldIndex_rawToken(db, tiddler, t, zone) ==
  LET syncStatus_ == getSyncStatus(db, tiddler.title)
  IN  IF ~syncStatus_.exists THEN TRUE
      ELSE IF syncStatus_.last_modified # tiddler.modified THEN TRUE
      ELSE IF syncStatus_.status = "error"
           THEN dateNow(t) - dateGetTime(syncStatus_.last_indexed, zone)
                  > RETRY_ERROR_AFTER_MS
           ELSE FALSE

\* the decision of lines 719-737 for one listed tiddler
shouldIndex(db, tiddler, t, zone) ==
  LET syncStatus_ == getSyncStatus(db, tiddler.title)
      tiddlerModified == normalizeModified(tiddler.modified)
  IN  IF ~syncStatus_.exists THEN TRUE
      ELSE IF syncStatus_.last_modified # tiddlerModified THEN TRUE
      ELSE IF syncStatus_.status = "error"
           THEN dateNow(t) - dateGetTime(syncStatus_.last_indexed, zone)
                  > RETRY_ERROR_AFTER_MS
           ELSE FALSE

isValid(tiddler) == validTiddler(tiddler.title)

tiddlersToIndex(db, listing, t, zone) ==
  LET keep(tiddler) == shouldIndex(db, tiddler, t, zone)
  IN  SelectSeq(SelectSeq(listing, isValid), keep)

\* tiddlersToIndex.slice(i, i + batchSize), as the set of its titles
batchTitles(q, i, size) ==
  {q[k].title : k \in {k \in 1..Len(q) : k > i /\ k <= i + size}}

\* a loop that starts every remaining call at once
launch_wholeQueue(q, i, size) ==
  [t \in Titles |->
     IF \E k \in 1..Len(q) : k > i /\ q[k].title = t
     THEN [st |-> "fetch", text |-> 0, modified |-> Undefined]
     ELSE NoProc]

launch(q, i, size) ==
  [t \in Titles |->
     IF t \in batchTitles(q, i, size)
     THEN [st |-> "fetch", text |-> 0, modified |-> Undefined]
     ELSE NoProc]

queued(q, t) == \E k \in 1..Len(q) : q[k].title = t
metaOf(q, t) == q[CHOOSE k \in 1..Len(q) : q[k].title = t]

\* a guard that never turns a call away
reentrancyGuard_never(flag) == FALSE

\* "if (this.isSyncing) return"
reentrancyGuard(flag) == flag

lowestIdle(i) == pc[i] = "idle" /\ \A j \in Slots : j < i => pc[j] # "idle"

\* the finally block, with the way the cycle ended
finish(i, kind) ==
  /\ isSyncing' = FALSE
  /\ pc' = [pc EXCEPT ![i] = "idle"]
  /\ queue' = [queue EXCEPT ![i] = <<>>]
  /\ batchStart' = [batchStart EXCEPT ![i] = 0]
  /\ proc' = [proc EXCEPT ![i] = [t \in Titles |-> NoProc]]
  /\ outcome' = [outcome EXCEPT ![i] = kind]
  /\ skipped' = FALSE
  /\ startTime' = [startTime EXCEPT ![i] = 0]
  /\ responded' = [responded EXCEPT ![i] = {}]
  /\ UNCHANGED before

\* runSync() up to its first await
runSync ==
  IF reentrancyGuard(isSyncing)
  THEN /\ skipped' = TRUE
       /\ UNCHANGED cycleVars
  ELSE \E i \in Slots :
         /\ lowestIdle(i)
         /\ skipped' = FALSE
         /\ isSyncing' = TRUE
         /\ pc' = [pc EXCEPT ![i] = "health"]
         /\ queue' = [queue EXCEPT ![i] = <<>>]
         /\ batchStart' = [batchStart EXCEPT ![i] = 0]
         /\ proc' = [proc EXCEPT ![i] = [t \in Titles |-> NoProc]]
         /\ stats' = [stats EXCEPT ![i] = ZeroStats]
         /\ startTime' = [startTime EXCEPT ![i] = dateNow(now)]
         /\ before' = [before EXCEPT ![i] = DB(embeddings, syncStatus)]
         /\ outcome' = [outcome EXCEPT ![i] = "running"]
         /\ UNCHANGED responded

\* a cycle that ignores the result of the health check
available_ignored(healthy) == TRUE

\* the test of line 681: the cycle goes on only if the service answered
available(healthy) == healthy

\* ollama.healthCheck() settles
HealthResult(i, healthy) ==
  /\ pc[i] = "health"
  /\ IF available(healthy)
     THEN /\ pc' = [pc EXCEPT ![i] = "list"]
          /\ UNCHANGED <<isSyncing, queue, batchStart, proc, startTime,
                         before, outcome, responded, skipped>>
     ELSE finish(i, "unhealthy")
  /\ UNCHANGED <<envVars, dbVars, configVars, toolVars, lifeVars, stats>>

\* the listing settles: filter, decide, and start the first batch
ListResult(i, ok) ==
  /\ pc[i] = "list"
  /\ IF ~ok
     THEN finish(i, "listFailed")
     ELSE LET q == tiddlersToIndex(DB(embeddings, syncStatus), allTiddlers,
                                   now, tz)
          IN  IF Len(q) = 0
              THEN finish(i, "nothing")
              ELSE /\ pc' = [pc EXCEPT ![i] = "batch"]
                   /\ queue' = [queue EXCEPT ![i] = q]
                   /\ proc' = [proc EXCEPT ![i] = launch(q, 0, batchSize)]
                   /\ UNCHANGED <<isSyncing, batchStart, startTime, before,
                                  outcome, responded, skipped>>
  /\ UNCHANGED <<envVars, dbVars, configVars, toolVars, lifeVars, stats>>


\* ---------------------------------------------------- SyncWorker.indexTiddler
Results == {"indexed", "empty", "error"}

\* an outer catch that lets the exception leave indexTiddler
outerCatch_rethrow(err) == "throw"

\* the outer catch of indexTiddler: what the call settles with
outerCatch(err) == "error"

\* the store loop of lines 831-843: inserts chunks k..upto, ids from 0
RECURSIVE storeEmbeddings(_, _, _, _, _, _)
storeEmbeddings(db, title, chunks, modified, k, upto) ==
  IF k > upto THEN db
  ELSE storeEmbeddings(
         insertEmbedding(db, title, k - 1, chunks[k], OrElse(modified, "")),
         title, chunks, modified, k + 1, upto)

\* indexTiddler from the settled fetch to its next await or return.
\* fullTiddler.exists = FALSE stands for `undefined`.
afterFetch(db, tiddlerMetadata, fullTiddler, t) ==
  IF ~HasText(fullTiddler)
  THEN [db |-> updateSyncStatus(db, tiddlerMetadata.title,
                  normalizeModified(tiddlerMetadata.modified),
                  0, "empty", NoError, t),
        st |-> "empty"]
  ELSE [db |-> deleteEmbeddingsForTiddler(db, tiddlerMetadata.title),
        st |-> "embed"]

\* indexTiddler from the settled embedding call to its return.  `good` is the
\* number of vectors the store accepts before an insert throws.
afterEmbed(db, title, text, modified, rejected, good, t) ==
  LET chunks == chunkText(text)
  IN  IF rejected
      THEN [db |-> updateSyncStatus(db, title, normalizeModified(modified),
                      0, "error", EmbeddingError, t),
            st |-> "error"]
      ELSE IF good < Len(chunks)
      THEN [db |-> updateSyncStatus(
                      storeEmbeddings(db, title, chunks, modified, 1, good),
                      title, normalizeModified(modified), 0, "error",
                      InsertError, t),
            st |-> "error"]
      ELSE [db |-> updateSyncStatus(
                      storeEmbeddings(db, title, chunks, modified, 1,
                                      Len(chunks)),
                      title, normalizeModified(modified), Len(chunks),
                      "indexed", NoError, t),
            st |-> "indexed"]

count(p, batch, result) == Cardinality({u \in batch : p[u].st = result})

\* the indexTiddler call for t settles with `result`; when it is the last of
\* its batch, Promise.all resolves and the loop of lines 761-777 goes on
settle(i, t, result) ==
  LET p1 == [proc[i] EXCEPT ![t] = [st |-> result, text |-> 0,
                                    modified |-> Undefined]]
      batch == batchTitles(queue[i], batchStart[i], batchSize)
      stats1 == [indexed |-> stats[i].indexed + count(p1, batch, "indexed"),
                 empty |-> stats[i].empty + count(p1, batch, "empty"),
                 error |-> stats[i].error + count(p1, batch, "error")]
      next == batchStart[i] + batchSize
  IN  IF result = "throw"
      THEN finish(i, "batchFailed") /\ UNCHANGED stats
      ELSE IF \E u \in batch : p1[u].st \notin Results
      THEN /\ proc' = [proc EXCEPT ![i] = p1]
           /\ UNCHANGED <<isSyncing, pc, queue, batchStart, stats, startTime,
                          before, outcome, responded, skipped>>
      ELSE IF next < Len(queue[i])
      THEN /\ proc' = [proc EXCEPT ![i] = launch(queue[i], next, batchSize)]
           /\ batchStart' = [batchStart EXCEPT ![i] = next]
           /\ stats' = [stats EXCEPT ![i] = stats1]
           /\ UNCHANGED <<isSyncing, pc, queue, startTime, before, outcome,
                          responded, skipped>>
      ELSE /\ finish(i, "completed")
           /\ stats' = [stats EXCEPT ![i] = stats1]

\* queryTiddlers('[title[t]]', true) settles.  res = "throws": the filter
\* request failed; "dropped": the getTiddler request was rejected and
\* Promise.allSettled dropped it, so no tiddler comes back; "ok": the store
\* answers with the tiddler as it is now, or with none if it is gone.
fetched(t, res) == IF res = "ok" THEN docs[t] ELSE AbsentDoc

FetchResult(i, t, res) ==
  /\ pc[i] = "batch"
  /\ proc[i][t].st = "fetch"
  /\ LET fullTiddler == fetched(t, res)
         r == afterFetch(DB(embeddings, syncStatus), metaOf(queue[i], t),
                         fullTiddler, now)
     IN  IF res = "throws"
         THEN settle(i, t, outerCatch("fetch")) /\ UNCHANGED dbVars
         ELSE /\ embeddings' = r.db.embeddings
              /\ syncStatus' = r.db.syncStatus
              /\ IF r.st = "embed"
                 THEN /\ proc' = [proc EXCEPT ![i][t] =
                             [st |-> "embed", text |-> fullTiddler.text,
                              modified |-> fullTiddler.modified]]
                      /\ UNCHANGED <<isSyncing, pc, queue, batchStart, stats,
                                     startTime, before, outcome, responded,
                                     skipped>>
                 ELSE settle(i, t, r.st)
  /\ UNCHANGED <<envVars, configVars, toolVars, lifeVars>>

\* generateDocumentEmbeddings(chunks) settles
EmbedResult(i, t, rejected, good) ==
  /\ pc[i] = "batch"
  /\ proc[i][t].st = "embed"
  /\ good <= Len(chunkText(proc[i][t].text))
  /\ rejected => good = 0
  /\ LET r == afterEmbed(DB(embeddings, syncStatus), t, proc[i][t].text,
                         proc[i][t].modified, rejected, good, now)
     IN  /\ embeddings' = r.db.embeddings
         /\ syncStatus' = r.db.syncStatus
         /\ settle(i, t, r.st)
  /\ UNCHANGED <<envVars, configVars, toolVars, lifeVars>>

\* The requests a cycle awaits through fetchWithTimeout and whose response
\* body it then reads: the listing, and per title the fetch and the
\* embedding request.  (The health check reads response.ok only.)
Calls == {<<"list", "">>} \cup ({"fetch", "embed"} \X Titles)

pending(i, call) ==
  IF call[1] = "list"
  THEN pc[i] = "list"
  ELSE pc[i] = "batch" /\ proc[i][call[2]].st = call[1]

\* fetch() resolves with the head of the response: fetchWithTimeout returns
\* it and, in its finally block, clears the timer that would have aborted
\* the request; the caller goes on to await response.json() / text()
Response(i, call) ==
  /\ pending(i, call)
  /\ call \notin responded[i]
  /\ responded' = [responded EXCEPT ![i] = @ \cup {call}]
  /\ UNCHANGED <<envVars, dbVars, configVars, toolVars, lifeVars, isSyncing, pc, queue,
                 batchStart, proc, stats, startTime, before, outcome,
                 skipped>>

\* the awaited call settles, whichever way
Settles(i, call) ==
  \/ call[1] = "list" /\ \E ok \in BOOLEAN : ListResult(i, ok)
  \/ call[1] = "fetch" /\ \E res \in {"throws", "dropped", "ok"} :
                            FetchResult(i, call[2], res)
  \/ call[1] = "embed" /\ \E rejected \in BOOLEAN, good \in 0..MaxParagraphs :
                            EmbedResult(i, call[2], rejected, good)

\* ------------------------------------------------- SyncWorker start / stop
\* start() up to its await of the health check
Start ==
  /\ startCalls < MaxStarts
  /\ startCalls' = startCalls + 1
  /\ IF enabled /\ ~isRunning
     THEN /\ isRunning' = TRUE
          /\ startsPending' = startsPending + 1
     ELSE UNCHANGED <<isRunning, startsPending>>
  /\ UNCHANGED <<envVars, dbVars, configVars, toolVars, intervalId, timers, cycleVars,
                 skipped>>

\* start() after its health check (whose result is only logged): the initial
\* runSync(), then setInterval
StartResume ==
  /\ startsPending > 0
  /\ startsPending' = startsPending - 1
  /\ runSync
  /\ intervalId' = TRUE
  /\ timers' = timers + 1
  /\ UNCHANGED <<envVars, dbVars, configVars, toolVars, isRunning, startCalls>>

Stop ==
  /\ isRunning
  /\ isRunning' = FALSE
  /\ IF intervalId
     THEN intervalId' = FALSE /\ timers' = timers - 1
     ELSE UNCHANGED <<intervalId, timers>>
  /\ UNCHANGED <<envVars, dbVars, configVars, toolVars, startsPending, startCalls,
                 cycleVars, skipped>>

\* the interval callback
TimerFire ==
  /\ timers > 0
  /\ runSync
  /\ UNCHANGED <<envVars, dbVars, configVars, toolVars, lifeVars>>

ForceSync ==
  /\ runSync
  /\ UNCHANGED <<envVars, dbVars, configVars, toolVars, lifeVars>>

\* ------------------------------------------------------- the outside world
Edit(t, text, modified) ==
  /\ edits < MaxEdits
  /\ docs[t] # [exists |-> TRUE, text |-> text, modified |-> modified]
  /\ docs' = [docs EXCEPT ![t] =
                [exists |-> TRUE, text |-> text, modified |-> modified]]
  /\ edits' = edits + 1
  /\ UNCHANGED <<now, dbVars, configVars, toolVars, lifeVars, cycleVars, skipped>>

Delete(t) ==
  /\ edits < MaxEdits
  /\ docs[t].exists
  /\ docs' = [docs EXCEPT ![t] = AbsentDoc]
  /\ edits' = edits + 1
  /\ UNCHANGED <<now, dbVars, configVars, toolVars, lifeVars, cycleVars, skipped>>

Tick ==
  /\ now < MaxTime
  /\ now' = now + 1
  /\ UNCHANGED <<docs, edits, dbVars, configVars, toolVars, lifeVars, cycleVars,
                 skipped>>

\* ------------------------------------------------ the search_tiddlers tool
\* the structural filters a request may carry, and the titles each matches
Filters == {"[all[tiddlers]]", "[prefix[A]]"}

matches(filter, t) ==
  IF filter = "[prefix[A]]" THEN startsWith(TitleChars(t), <<"A">>) ELSE TRUE

\* an optional number that is absent
None == -1

\* the arguments of a request, as SearchTiddlersInput.parse leaves them
Inputs ==
  [semantic : {Undefined, "q"}, filter : {Undefined} \cup Filters,
   includeText : BOOLEAN, offset : {None, 1}, limit : {None, 1, MaxLimit}]

\* what the services outside do while a request is handled: whether the
\* embedding request and the filter request succeed, and the title, if any,
\* for which getTiddler is rejected
Outcomes == [embed : BOOLEAN, list : BOOLEAN, failing : {Undefined, "A"}]

\* one element of a result list; text = None when it carries no text field
Item(t, chunkId, text) == [title |-> t, chunk_id |-> chunkId, text |-> text]

\* the tiddlers a filter matches, in the order the store lists them
RECURSIVE matching(_, _)
matching(filter, k) ==
  IF k > Len(TitleOrder) THEN <<>>
  ELSE IF docs[TitleOrder[k]].exists /\ matches(filter, TitleOrder[k])
       THEN <<TitleOrder[k]>> \o matching(filter, k + 1)
       ELSE matching(filter, k + 1)

\* Array.slice(offset, endIndex) with endIndex possibly undefined
slice(s, offset, endIndex) ==
  SubSeq(s, offset + 1,
         IF endIndex = None \/ endIndex > Len(s) THEN Len(s) ELSE endIndex)

\* a queryTiddlers that fetches the text of every match and slices afterwards
textFetches_everyMatch(filter, includeText, offset, limit) ==
  IF includeText THEN matching(filter, 1) ELSE <<>>

\* lines 180-190 of queryTiddlers: the titles it calls getTiddler for, the
\* offset and the limit being applied to the matches first
textFetches(filter, includeText, offset, limit) ==
  IF includeText
  THEN slice(matching(filter, 1), offset,
             IF limit = None THEN None ELSE offset + limit)
  ELSE <<>>

\* queryTiddlers(filter, includeText, offset, limit) when the filter request
\* succeeds: the matches, sliced, then fetched one by one when the text is
\* asked for, a rejected getTiddler being dropped by Promise.allSettled
queryTiddlers(filter, includeText, offset, limit, failing) ==
  LET all == matching(filter, 1)
      page == slice(all, offset, IF limit = None THEN None ELSE offset + limit)
      fetches == textFetches(filter, includeText, offset, limit)
      got(t) == t # failing /\ docs[t].exists
      full(t) == Item(t, None, docs[t].text)
      bare(t) == Item(t, None, None)
  IN  IF includeText
      THEN [k \in 1..Len(SelectSeq(fetches, got)) |->
              full(SelectSeq(fetches, got)[k])]
      ELSE [k \in 1..Len(page) |-> bare(page[k])]

\* countTokens(JSON.stringify(results, null, 2)): the brackets, and for each
\* element its title and, when it carries text, maxTokens for each paragraph
RECURSIVE sumTokens(_, _)
sumTokens(results, k) ==
  IF k > Len(results) THEN 0
  ELSE Len(TitleChars(results[k].title))
       + (IF results[k].text = None THEN 0 ELSE results[k].text * maxTokens)
       + sumTokens(results, k + 1)

countTokens(results) == 2 + sumTokens(results, 1)

\* a suggestion that is rounded up
suggestedLimit_ceil(tokenCount, length) ==
  (MAX_RESPONSE_TOKENS * length + tokenCount - 1) \div tokenCount

\* the limit the diagnostic suggests: Math.floor(MAX / (tokenCount / length))
suggestedLimit(tokenCount, length) ==
  (MAX_RESPONSE_TOKENS * length) \div tokenCount

\* a diagnostic that is sent only when the estimate is far above the threshold
exceeds_lenient(tokenCount) == tokenCount > 2 * MAX_RESPONSE_TOKENS

\* the test of lines 31 and 189
exceeds(tokenCount) == tokenCount > MAX_RESPONSE_TOKENS

\* EmbeddingsDB.getIndexedTiddlersCount(): COUNT(*) FROM sync_status
getIndexedTiddlersCount(db) ==
  Cardinality({t \in Titles : db.syncStatus[t].exists})

\* EmbeddingsDB.getEmbeddingsCount(): COUNT(*) FROM entry_embeddings
getEmbeddingsCount(db) ==
  Cardinality({<<t, k>> \in Titles \X (1..MaxParagraphs + 1) :
                 k <= Len(db.embeddings[t])})

\* the semantic queries, and the vectors the embedding service returns for
\* a query and for a chunk: one coordinate each
Queries == {"q", "r"}

queryEmbedding(query) == IF query = "q" THEN 0 ELSE 2

embeddingOf(t, chunkId) ==
  CASE t = "c.tidy" -> 0
    [] t = "B" -> 1
    [] t = "A" -> IF chunkId = 0 THEN 2 ELSE 3
    [] t = "/p.tid" -> 4

\* e.distance of the vec0 table: the L2 distance of a stored vector to the
\* query vector
distance(query, r) ==
  LET d == embeddingOf(r.title, r.chunk_id) - queryEmbedding(query)
  IN  IF d < 0 THEN 0 - d ELSE d

\* entry_embeddings JOIN embedding_metadata ON e.rowid = m.id, by rowid
RECURSIVE joined(_, _)
joined(db, k) ==
  IF k > Len(TitleOrder) THEN <<>>
  ELSE [j \in 1..Len(db.embeddings[TitleOrder[k]]) |->
          Item(TitleOrder[k], db.embeddings[TitleOrder[k]][j].chunk_id, None)]
       \o joined(db, k + 1)

\* the first of the rows at the least distance
closest(rows, query) ==
  CHOOSE i \in 1..Len(rows) :
    \A j \in 1..Len(rows) :
      \/ distance(query, rows[i]) < distance(query, rows[j])
      \/ distance(query, rows[i]) = distance(query, rows[j]) /\ i <= j

\* embedding MATCH ? AND k = ?: the k nearest rows, nearest first
RECURSIVE knn(_, _, _)
knn(rows, query, k) ==
  IF k = 0 \/ Len(rows) = 0 THEN <<>>
  ELSE LET i == closest(rows, query)
       IN  <<rows[i]>>
           \o knn(SubSeq(rows, 1, i - 1) \o SubSeq(rows, i + 1, Len(rows)),
                  query, k - 1)

\* a search that returns the first k rows of the table as they are stored
searchSimilar_rowidOrder(db, query, limit) == slice(joined(db, 1), 0, limit)

\* EmbeddingsDB.searchSimilar(queryEmbedding, limit)
searchSimilar(db, query, limit) == knn(joined(db, 1), query, limit)

\* a hybrid search that does not apply the filter to the semantic results
keepMatches_all(results, filterTitles) == results

\* results.filter((r) => filterTitles.has(r.tiddler_title))
keepMatches(results, filterTitles) ==
  SelectSeq(results, LAMBDA r : r.title \in filterTitles)

\* what the handler answers
Answer(input, mode, kind, isError, results, matched, tokens, suggested, calls) ==
  [input |-> input, mode |-> mode, kind |-> kind, isError |-> isError,
   results |-> results, matched |-> matched, tokens |-> tokens,
   suggested |-> suggested, calls |-> calls]

NoReply ==
  Answer([semantic |-> Undefined, filter |-> Undefined, includeText |-> FALSE,
          offset |-> None, limit |-> None],
         "none", "none", FALSE, <<>>, None, None, None, <<>>)

\* the size check and the two ways the handler returns after it
sized(input, mode, results, calls) ==
  LET tokenCount == countTokens(results)
  IN  IF exceeds(tokenCount)
      THEN Answer(input, mode, "tooLarge", TRUE, <<>>, Len(results),
                  tokenCount, suggestedLimit(tokenCount, Len(results)), calls)
      ELSE Answer(input, mode, "data", FALSE, results, Len(results),
                  tokenCount, None, calls)

thrown(input, mode, calls) ==
  Answer(input, mode, "throws", TRUE, <<>>, None, None, None, calls)

\* lines 75-93
filterMode(input, ext) ==
  LET offset == IF input.offset = None THEN 0 ELSE input.offset
      call == <<"queryTiddlers", input.filter, input.includeText, offset,
                input.limit>>
  IN  IF ~ext.list
      THEN thrown(input, "filter", <<call>>)
      ELSE sized(input, "filter",
                 queryTiddlers(input.filter, input.includeText, offset,
                               input.limit, ext.failing),
                 <<call>>)

\* lines 96-232
semanticMode(input, d, db, ext) ==
  LET mode == IF input.filter = Undefined THEN "semantic" ELSE "hybrid"
      limit == IF input.limit = None THEN DefaultLimit ELSE input.limit
      counted == <<"getIndexedTiddlersCount">>
      embedded == <<"generateQueryEmbedding", input.semantic>>
      searched == <<"searchSimilar", limit>>
      queried == <<"queryTiddlers", input.filter, FALSE, 0, None>>
      results == searchSimilar(db, input.semantic, limit)
      filterTitles == {t \in Titles : docs[t].exists /\ matches(input.filter, t)}
      filteredResults == IF input.filter = Undefined THEN results
                         ELSE keepMatches(results, filterTitles)
      soFar == IF input.filter = Undefined
               THEN <<counted, embedded, searched>>
               ELSE <<counted, embedded, searched, queried>>
      fetches == [k \in 1..Len(filteredResults) |->
                    <<"getTiddler", filteredResults[k].title>>]
      withText(r) == IF docs[r.title].exists
                     THEN Item(r.title, r.chunk_id, docs[r.title].text)
                     ELSE r
      formattedResults == IF input.includeText
                          THEN [k \in 1..Len(filteredResults) |->
                                  withText(filteredResults[k])]
                          ELSE filteredResults
  IN  IF ~d.embeddingsDB \/ ~d.ollamaClient
      THEN Answer(input, mode, "notAvailable", TRUE, <<>>, None, None, None,
                  <<>>)
      ELSE IF getIndexedTiddlersCount(db) = 0
      THEN Answer(input, mode, "notIndexed", TRUE, <<>>, None, None, None,
                  <<counted>>)
      ELSE IF ~ext.embed
      THEN thrown(input, mode, <<counted, embedded>>)
      ELSE IF input.filter # Undefined /\ ~ext.list
      THEN thrown(input, mode, soFar)
      ELSE IF input.includeText
              /\ \E k \in 1..Len(filteredResults) :
                   filteredResults[k].title = ext.failing
      THEN thrown(input, mode, soFar \o fetches)
      ELSE sized(input, mode, formattedResults,
                 IF input.includeText THEN soFar \o fetches ELSE soFar)

\* a handler that serves every request that carries a filter in filter mode
filterOnly_anyFilter(hasFilter, hasSemantic) == hasFilter

\* the test of line 75
filterOnly(hasFilter, hasSemantic) == hasFilter /\ ~hasSemantic

\* SearchTiddlersInput.parse(args): offset is min(0), limit is min(1) and
\* max(100), and one of semantic and filter is given
parses(input) ==
  /\ input.offset = None \/ input.offset >= 0
  /\ input.limit = None \/ (input.limit >= 1 /\ input.limit <= 100)
  /\ input.semantic # Undefined \/ input.filter # Undefined

\* handleSearchTiddlers(args, deps), from the parse of its arguments to its
\* return or throw
handleSearchTiddlers(input, d, db, ext) ==
  LET hasSemantic == input.semantic # Undefined
      hasFilter == input.filter # Undefined
  IN  IF ~parses(input)
      THEN Answer(input, "none", "rejected", TRUE, <<>>, None, None, None,
                  <<>>)
      ELSE IF filterOnly(hasFilter, hasSemantic)
      THEN filterMode(input, ext)
      ELSE IF hasSemantic
      THEN semanticMode(input, d, db, ext)
      ELSE thrown(input, "none", <<>>)

\* a search_tiddlers request is handled
Search(input, ext) ==
  /\ reply' = handleSearchTiddlers(input, deps, DB(embeddings, syncStatus), ext)
  /\ reply' # reply
  /\ UNCHANGED <<envVars, dbVars, configVars, lifeVars, cycleVars, skipped,
                 deps, other, http>>

\* A caller that pages through a filter's matches: the filter, whether text
\* is asked for, the limit in use, the pages received so far and their
\* results one after the other.
Run(filter, includeText, limit, pages, results) ==
  [filter |-> filter, includeText |-> includeText, limit |-> limit,
   pages |-> pages, results |-> results]

\* the caller settles on a filter, on includeText and on a first limit
StartRun(filter, includeText, limit) ==
  /\ other = NoReply
  /\ other' = Run(filter, includeText, limit, 0, <<>>)
  /\ UNCHANGED <<envVars, dbVars, configVars, lifeVars, cycleVars, skipped,
                 deps, reply, http>>

\* the caller requests the next page, offset = pages received * limit, and
\* handleSearchTiddlers answers it in filter mode (lines 75-93).  A page of
\* data is appended; after a size-exceeded diagnostic (lines 39-53) the
\* caller starts over with the suggested limit when that is a limit the
\* tool accepts; a request that throws is repeated.
RequestPage(ext) ==
  LET input == [semantic |-> Undefined, filter |-> other.filter,
                includeText |-> other.includeText,
                offset |-> other.pages * other.limit, limit |-> other.limit]
      answer == handleSearchTiddlers(input, deps,
                                     DB(embeddings, syncStatus), ext)
  IN  /\ other # NoReply
      /\ other.pages = 0
           \/ other.pages * other.limit < Len(matching(other.filter, 1))
      /\ reply' = answer
      /\ other' =
           IF answer.kind = "data"
           THEN Run(other.filter, other.includeText, other.limit,
                    other.pages + 1, other.results \o answer.results)
           ELSE IF answer.kind = "tooLarge" /\ answer.suggested >= 1
                   /\ answer.suggested <= 100
           THEN Run(other.filter, other.includeText, answer.suggested, 0, <<>>)
           ELSE other
      /\ UNCHANGED <<envVars, dbVars, configVars, lifeVars, cycleVars, skipped,
                     deps, http>>

\* The size check on its own.  A result list is given by its length and by
\* the tokens one element takes in the JSON text: a bare title, a short
\* text, a text of one chunk, a text of four chunks.
ItemTokens == {12, 200, maxTokens, 4 * maxTokens}

\* the size check of lines 28-35 and 186-191 on a result list of `length`
\* elements of `perItem` tokens each
ValidateResponseSize(length, perItem) ==
  LET tokenCount == 2 + length * perItem
  IN  /\ reply' =
           IF exceeds(tokenCount)
           THEN Answer(NoReply.input, "size", "tooLarge", TRUE, <<>>, length,
                       tokenCount, suggestedLimit(tokenCount, length), <<>>)
           ELSE Answer(NoReply.input, "size", "data", FALSE, <<>>, length,
                       tokenCount, None, <<>>)
      /\ UNCHANGED <<envVars, dbVars, configVars, lifeVars, cycleVars, skipped,
                     deps, other, http>>

\* ------------------------- create_tiddler, update_tiddler, delete_tiddler
\* The three handlers look the title up, and then write or refuse.  A
\* handler is suspended twice: at its getTiddler ("lookup") and at its
\* putTiddler or deleteTiddler ("write").
CrudTools == {"create_tiddler", "update_tiddler", "delete_tiddler"}

\* the texts a request may carry; update_tiddler may carry none
CrudInputs ==
  [tool : CrudTools, title : LogicalTitles, text : {None, MaxParagraphs}]
  \ [tool : {"create_tiddler"}, title : LogicalTitles, text : {None}]

\* the handler of a request, where it is and what it has called and got
Handler(input, kind, isError, current, calls) ==
  Answer(input, input.tool, kind, isError, current, None, None, None, calls)

\* createTiddlerObject(title, text, ...): created is set, modified is not
createTiddlerObject(text) ==
  [exists |-> TRUE, text |-> text, modified |-> Undefined]

\* updateTiddlerObject(current, updates, modifier): the fields of current
\* under those of the request, and a new modified timestamp
updateTiddlerObject(current, text, timestamp) ==
  [exists |-> TRUE, text |-> IF text = None THEN current.text ELSE text,
   modified |-> timestamp]

\* a handler that writes whatever the lookup returned
refuses_never(tool, existing) == FALSE

\* the tests of create-tiddler.ts:42, update-tiddler.ts:82 and
\* delete-tiddler.ts:18
refuses(tool, existing) ==
  IF tool = "create_tiddler" THEN existing.exists ELSE ~existing.exists

\* the request the handler issues after the lookup
writeCall(input) ==
  IF input.tool = "delete_tiddler" THEN <<"deleteTiddler", input.title>>
  ELSE <<"putTiddler", input.title>>

\* a handler is called and issues its getTiddler
CrudCall(input) ==
  /\ reply = NoReply
  /\ reply' = Handler(input, "lookup", FALSE, <<>>,
                      <<<<"getTiddler", input.title>>>>)
  /\ UNCHANGED <<envVars, dbVars, configVars, lifeVars, cycleVars, skipped,
                 deps, other, http>>

\* the handler from its settled getTiddler to its next await or return
afterLookup(r, existing, ok) ==
  LET input == r.input
  IN  IF ~ok THEN Handler(input, "throws", TRUE, <<>>, r.calls)
      ELSE IF refuses(input.tool, existing)
      THEN Handler(input,
                   IF input.tool = "create_tiddler"
                   THEN "alreadyExists" ELSE "notFound",
                   TRUE, <<existing>>, r.calls)
      ELSE Handler(input, "write", FALSE, <<existing>>,
                   Append(r.calls, writeCall(input)))

\* what the handler's putTiddler or deleteTiddler leaves under the title
written(r, timestamp) ==
  CASE r.input.tool = "create_tiddler" -> createTiddlerObject(r.input.text)
    [] r.input.tool = "update_tiddler" ->
         updateTiddlerObject(r.results[1], r.input.text, timestamp)
    [] r.input.tool = "delete_tiddler" -> AbsentDoc

\* the handler from its settled write to its return
afterWrite(r, ok) ==
  Handler(r.input, IF ok THEN "done" ELSE "throws", ~ok, r.results, r.calls)

\* the document store answers the getTiddler, or the request fails
LookupResult(ok) ==
  /\ reply.kind = "lookup"
  /\ reply' = afterLookup(reply, docs[reply.input.title], ok)
  /\ UNCHANGED <<envVars, dbVars, configVars, lifeVars, cycleVars,
                 skipped, deps, other, http>>

\* the document store carries out the putTiddler or deleteTiddler, or the
\* request fails
WriteResult(ok, timestamp) ==
  /\ reply.kind = "write"
  /\ reply' = afterWrite(reply, ok)
  /\ docs' = IF ok THEN [docs EXCEPT ![reply.input.title] =
                           written(reply, timestamp)]
             ELSE docs
  /\ UNCHANGED <<edits, now, dbVars, configVars, lifeVars, cycleVars,
                 skipped, deps, other, http>>

\* A second create_tiddler request, handled while the first is: the same
\* handler, its position kept in `other`.
CreateInputs ==
  [tool : {"create_tiddler"}, title : LogicalTitles,
   text : {1, MaxParagraphs}]

otherFrame ==
  <<edits, now, dbVars, configVars, lifeVars, cycleVars, skipped, deps,
    reply, http>>

OtherCall(input) ==
  /\ other = NoReply
  /\ other' = Handler(input, "lookup", FALSE, <<>>,
                      <<<<"getTiddler", input.title>>>>)
  /\ UNCHANGED <<docs, otherFrame>>

OtherLookupResult(ok) ==
  /\ other.kind = "lookup"
  /\ other' = afterLookup(other, docs[other.input.title], ok)
  /\ UNCHANGED <<docs, otherFrame>>

OtherWriteResult(ok, timestamp) ==
  /\ other.kind = "write"
  /\ other' = afterWrite(other, ok)
  /\ docs' = IF ok THEN [docs EXCEPT ![other.input.title] =
                           written(other, timestamp)]
             ELSE docs
  /\ UNCHANGED otherFrame

\* ----------------------------------- tiddlywiki-http.ts updateTiddlerObject
\* A Tiddler object is a function from the names of its own properties to
\* their values; a property may be present with the value undefined.
Fields ==
  {"title", "text", "type", "tags", "created", "creator", "modified",
   "modifier", "revision", "bag", "custom"}

\* o[f] of JavaScript: undefined when the object has no such property
get(o, f) == IF f \in DOMAIN o THEN o[f] ELSE Undefined

\* { ...a, ...b }
spread(a, b) ==
  [f \in DOMAIN a \cup DOMAIN b |-> IF f \in DOMAIN b THEN b[f] ELSE a[f]]

\* the tiddlers getTiddler may hand over: a title, and with or without the
\* creation fields, the content fields, the modification fields, the fields
\* the server adds and a custom field
Currents ==
  {[f \in {"title"} \cup made \cup content \cup changed \cup server \cup own
      |-> "old"] :
     made \in {{}, {"created", "creator"}},
     content \in {{}, {"text", "type", "tags"}},
     changed \in {{}, {"modified", "modifier"}},
     server \in {{}, {"revision", "bag"}},
     own \in {{}, {"custom"}}}

\* the updates a caller may pass: any fields, given new values or undefined
Updates ==
  UNION {[named -> {"new"}] \cup [named -> {Undefined}] :
           named \in SUBSET Fields}

\* an updateTiddlerObject that spreads the updates last
updateTiddlerFields_updatesLast(current, updates, modifier, timestamp) ==
  spread(spread(current,
                [f \in {"title", "created", "creator", "modified", "modifier",
                        "revision", "bag"} |->
                   CASE f \in {"title", "created", "creator"} -> get(current, f)
                     [] f = "modified" -> timestamp
                     [] f = "modifier" -> modifier
                     [] OTHER -> Undefined]),
         updates)

\* updateTiddlerObject(current, updates, modifier) with all the fields of
\* the object it returns (lines 361-380), timestamp being what
\* generateTimestamp() returns at the call
updateTiddlerFields(current, updates, modifier, timestamp) ==
  spread(spread(current, updates),
         [f \in {"title", "created", "creator", "modified", "modifier",
                 "revision", "bag"} |->
            CASE f \in {"title", "created", "creator"} -> get(current, f)
              [] f = "modified" -> timestamp
              [] f = "modifier" -> modifier
              [] OTHER -> Undefined])

\* one call of updateTiddlerObject and the object it returned
UpdateTiddlerObject(current, updates, modifier, timestamp) ==
  /\ reply' = [kind |-> "updateTiddlerObject", current |-> current,
               updates |-> updates, modifier |-> modifier,
               timestamp |-> timestamp,
               result |-> updateTiddlerFields(current, updates, modifier,
                                              timestamp)]
  /\ UNCHANGED <<envVars, dbVars, configVars, lifeVars, cycleVars, skipped,
                 deps, other, http>>

\* ------------------------------------------- tiddlywiki-http.ts getBaseUrl
\* The module keeps baseUrlCache, cacheTime and pendingResolution.  `clock`
\* is Date.now() in milliseconds; `calls` records, for every getBaseUrl call,
\* when it came, which way it took ("cache", "pending", "new"), the promise
\* it was handed (numbered by the call that created it, 0 for none) and what
\* that promise settled with.
CACHE_TTL == 60000
MsPerStep == CACHE_TTL \div 2
Urls == {"http://a:1", "http://b:2"}
NoUrl == "null"

Loaded ==
  [baseUrlCache |-> NoUrl, cacheTime |-> 0, pendingResolution |-> 0,
   clock |-> 0, calls |-> <<>>]

UrlCall(at, via, promise, result) ==
  [at |-> at, via |-> via, promise |-> promise, result |-> result,
   settledAt |-> IF via = "cache" THEN at ELSE 0 - 1]

\* the resolutions started and not settled
inFlight(h) ==
  {k \in 1..Len(h.calls) : h.calls[k].via = "new" /\ h.calls[k].result = NoUrl}

\* "baseUrlCache && now - cacheTime < CACHE_TTL"
cacheValid(h) == h.baseUrlCache # NoUrl /\ h.clock - h.cacheTime < CACHE_TTL

\* a getBaseUrl that never waits for the resolution in progress
awaitsPending_never(pendingResolution) == FALSE

\* "if (pendingResolution) return pendingResolution"
awaitsPending(pendingResolution) == pendingResolution # 0

\* getBaseUrl() up to its return: the module state after the call
getBaseUrl(h) ==
  LET k == Len(h.calls) + 1
  IN  IF cacheValid(h)
      THEN [h EXCEPT !.calls =
              Append(@, UrlCall(h.clock, "cache", 0, h.baseUrlCache))]
      ELSE IF awaitsPending(h.pendingResolution)
      THEN [h EXCEPT !.calls =
              Append(@, UrlCall(h.clock, "pending", h.pendingResolution, NoUrl))]
      ELSE [h EXCEPT !.pendingResolution = k,
                     !.calls = Append(@, UrlCall(h.clock, "new", k, NoUrl))]

\* every caller that holds promise p receives its result
deliver(h, p, result) ==
  [k \in 1..Len(h.calls) |->
     IF h.calls[k].promise = p
     THEN [h.calls[k] EXCEPT !.result = result, !.settledAt = h.clock]
     ELSE h.calls[k]]

\* the async function of lines 110-119 after its await: try, then finally
resolution(h, p, ok, url) ==
  IF ok
  THEN [h EXCEPT !.baseUrlCache = url, !.cacheTime = h.clock,
                 !.pendingResolution = 0, !.calls = deliver(h, p, url)]
  ELSE [h EXCEPT !.pendingResolution = 0,
                 !.calls = deliver(h, p, "rejected")]

urlFrame ==
  <<envVars, dbVars, configVars, lifeVars, cycleVars, skipped, deps, reply,
    other>>

GetBaseUrl ==
  /\ Len(http.calls) < MaxResolves
  /\ http' = getBaseUrl(http)
  /\ UNCHANGED urlFrame

\* getServiceUrl settles
ResolutionResult(p, ok, url) ==
  /\ p \in inFlight(http)
  /\ http' = resolution(http, p, ok, url)
  /\ UNCHANGED urlFrame

\* time passes
Elapse ==
  /\ http.clock < MaxClock * MsPerStep
  /\ http' = [http EXCEPT !.clock = @ + MsPerStep]
  /\ UNCHANGED urlFrame

\* ------------------------------------------- OllamaClient.chunkText
\* A text is a sequence of characters: a letter, a full stop, a question
\* mark, a space and a line feed.
Chars == {"a", ".", "?", " ", "\n"}
Whitespace == {" ", "\n"}
Terminators == {".", "!", "?"}

Strings(n) == UNION {[1..k -> Chars] : k \in 0..n}

\* encode(text) of gpt-tokenizer: the tokens of a text.  A space joins the
\* letter or full stop that follows it; every other character is a token of
\* its own.
RECURSIVE encode(_)
encode(s) ==
  IF Len(s) = 0 THEN <<>>
  ELSE IF Len(s) >= 2 /\ s[1] = " " /\ s[2] \notin Whitespace
  THEN <<SubSeq(s, 1, 2)>> \o encode(SubSeq(s, 3, Len(s)))
  ELSE <<SubSeq(s, 1, 1)>> \o encode(Tail(s))

\* the text without its longest prefix of characters of a class
RECURSIVE dropWhile(_, _)
dropWhile(s, class) ==
  IF Len(s) > 0 /\ s[1] \in class THEN dropWhile(Tail(s), class) ELSE s

RECURSIVE dropWhileLast(_, _)
dropWhileLast(s, class) ==
  IF Len(s) > 0 /\ s[Len(s)] \in class
  THEN dropWhileLast(SubSeq(s, 1, Len(s) - 1), class) ELSE s

\* String.prototype.trim()
trim(s) == dropWhileLast(dropWhile(s, Whitespace), Whitespace)

\* text.split(/\n\n+/), cur being the piece read so far
RECURSIVE splitParagraphs(_, _)
splitParagraphs(s, cur) ==
  IF Len(s) = 0 THEN <<cur>>
  ELSE IF Len(s) >= 2 /\ s[1] = "\n" /\ s[2] = "\n"
  THEN <<cur>> \o splitParagraphs(dropWhile(s, {"\n"}), <<>>)
  ELSE splitParagraphs(Tail(s), Append(cur, s[1]))

\* para.split(/[.!?]+\s+/), cur being the piece read so far
RECURSIVE splitSentences(_, _)
splitSentences(s, cur) ==
  IF Len(s) = 0 THEN <<cur>>
  ELSE IF s[1] \in Terminators
  THEN LET rest == dropWhile(s, Terminators)
           marks == SubSeq(s, 1, Len(s) - Len(rest))
       IN  IF Len(rest) > 0 /\ rest[1] \in Whitespace
           THEN <<cur>> \o splitSentences(dropWhile(rest, Whitespace), <<>>)
           ELSE splitSentences(rest, cur \o marks)
  ELSE splitSentences(Tail(s), Append(cur, s[1]))

\* the loop of lines 201-214 from sentence k on; it returns the chunks and
\* the sentenceChunk it ends with
RECURSIVE sentenceLoop(_, _, _, _, _)
sentenceLoop(sentences, k, chunks, sentenceChunk, limit) ==
  IF k > Len(sentences) THEN [chunks |-> chunks, sentenceChunk |-> sentenceChunk]
  ELSE LET sentence == sentences[k]
           sentenceWithPunctuation ==
             IF Len(sentence) > 0 /\ sentence[Len(sentence)] \in Terminators
             THEN sentence ELSE sentence \o <<".">>
           testSentenceChunk ==
             IF Len(sentenceChunk) > 0
             THEN sentenceChunk \o <<" ">> \o sentenceWithPunctuation
             ELSE sentenceWithPunctuation
       IN  IF Len(encode(testSentenceChunk)) > limit /\ Len(sentenceChunk) > 0
           THEN sentenceLoop(sentences, k + 1,
                             Append(chunks, trim(sentenceChunk)),
                             sentenceWithPunctuation, limit)
           ELSE sentenceLoop(sentences, k + 1, chunks, testSentenceChunk,
                             limit)

\* the test of line 183, which comes before that of line 189
sentencesFirst(over, nonEmpty) == over /\ nonEmpty

\* the loop of lines 177-226 from paragraph k on, and lines 229-233
RECURSIVE paragraphLoop(_, _, _, _, _)
paragraphLoop(paragraphs, k, chunks, currentChunk, limit) ==
  IF k > Len(paragraphs)
  THEN SelectSeq(IF Len(currentChunk) > 0
                 THEN Append(chunks, trim(currentChunk)) ELSE chunks,
                 LAMBDA chunk : Len(chunk) > 0)
  ELSE LET para == paragraphs[k]
           testChunk == IF Len(currentChunk) > 0
                        THEN currentChunk \o <<"\n", "\n">> \o para ELSE para
           saved == IF Len(currentChunk) > 0
                    THEN Append(chunks, trim(currentChunk)) ELSE chunks
           split == sentenceLoop(splitSentences(para, <<>>), 1, saved, <<>>,
                                 limit)
       IN  IF sentencesFirst(Len(encode(testChunk)) > limit,
                             Len(currentChunk) > 0)
           THEN paragraphLoop(paragraphs, k + 1,
                              Append(chunks, trim(currentChunk)), para, limit)
           ELSE IF Len(encode(para)) > limit
           THEN paragraphLoop(paragraphs, k + 1, split.chunks,
                              IF Len(split.sentenceChunk) > 0
                              THEN split.sentenceChunk ELSE <<>>, limit)
           ELSE paragraphLoop(paragraphs, k + 1, chunks, testChunk, limit)

\* OllamaClient.chunkText(text, maxTokens), on the characters of the text
OllamaClient_chunkText(text, limit) ==
  IF Len(encode(text)) <= limit THEN <<text>>
  ELSE paragraphLoop(splitParagraphs(text, <<>>), 1, <<>>, <<>>, limit)

\* a call of chunkText and what it returned
ChunkText(text, limit) ==
  /\ reply' = Answer(NoReply.input, "chunkText", "chunkText", FALSE,
                     OllamaClient_chunkText(text, limit), None, None, None,
                     <<<<"chunkText", text, limit>>>>)
  /\ UNCHANGED <<envVars, dbVars, configVars, lifeVars, cycleVars, skipped,
                 deps, other, http>>

\* ------------------------------------------- EmbeddingsDB, called directly
\* the last call made on the store and what it returned
StoreCall(call, query, limit, results) ==
  Answer([NoReply.input EXCEPT !.semantic = query, !.limit = limit], "store",
         call[1], FALSE, results, None, None, None, <<call>>)

\* the arguments the callers pass to updateSyncStatus
StatusArgs ==
  [lastModified : Tokens, totalChunks : {0, MaxParagraphs},
   status : {"indexed", "error"}, errorMessage : {NoError, EmbeddingError}]

\* what a call on the store leaves alone; before[1] keeps the database as
\* the call found it
storeFrame ==
  <<envVars, configVars, lifeVars, isSyncing, pc, queue, batchStart, proc,
    stats, startTime, outcome, responded, skipped, deps, other, http>>

found == [before EXCEPT ![1] = DB(embeddings, syncStatus)]

InsertEmbedding(t, modified) ==
  LET chunkId == Len(embeddings[t])
  IN  /\ reply.kind # "searchSimilar"
      /\ chunkId < MaxParagraphs
      /\ embeddings' =
           insertEmbedding(DB(embeddings, syncStatus), t, chunkId,
                           <<MaxParagraphs, chunkId + 1>>, modified).embeddings
      /\ reply' = StoreCall(<<"insertEmbedding", t, chunkId>>, Undefined,
                            None, <<>>)
      /\ before' = found
      /\ UNCHANGED <<storeFrame, syncStatus>>

UpdateSyncStatus(t, a) ==
  /\ syncStatus' =
       updateSyncStatus(DB(embeddings, syncStatus), t, a.lastModified,
                        a.totalChunks, a.status, a.errorMessage,
                        now).syncStatus
  /\ reply' = StoreCall(<<"updateSyncStatus", t, a>>, Undefined, None, <<>>)
  /\ before' = found
  /\ UNCHANGED <<storeFrame, embeddings>>

DeleteEmbeddingsForTiddler(t) ==
  LET db == deleteEmbeddingsForTiddler(DB(embeddings, syncStatus), t)
  IN  /\ reply.kind # "searchSimilar"
      /\ embeddings' = db.embeddings
      /\ syncStatus' = db.syncStatus
      /\ reply' = StoreCall(<<"deleteEmbeddingsForTiddler", t>>, Undefined,
                            None, <<>>)
      /\ before' = found
      /\ UNCHANGED storeFrame

SearchSimilar(query, limit) ==
  /\ reply.kind # "searchSimilar"
  /\ reply' = StoreCall(<<"searchSimilar", limit>>, query, limit,
                        searchSimilar(DB(embeddings, syncStatus), query,
                                      limit))
  /\ before' = found
  /\ UNCHANGED <<storeFrame, dbVars>>

\* ------------------------------------------------------- specification
\* the worker as constructed, on an empty database
Constructed ==
  /\ embeddings = [t \in Titles |-> <<>>]
  /\ syncStatus = [t \in Titles |-> NoStatus]
  /\ isRunning = FALSE
  /\ intervalId = FALSE
  /\ timers = 0
  /\ startsPending = 0
  /\ startCalls = 0
  /\ isSyncing = FALSE
  /\ pc = [i \in Slots |-> "idle"]
  /\ queue = [i \in Slots |-> <<>>]
  /\ batchStart = [i \in Slots |-> 0]
  /\ proc = [i \in Slots |-> [t \in Titles |-> NoProc]]
  /\ stats = [i \in Slots |-> ZeroStats]
  /\ startTime = [i \in Slots |-> 0]
  /\ before = [i \in Slots |->
                DB([t \in Titles |-> <<>>], [t \in Titles |-> NoStatus])]
  /\ outcome = [i \in Slots |-> "none"]
  /\ responded = [i \in Slots |-> {}]
  /\ skipped = FALSE
  /\ reply = NoReply
  /\ other = NoReply
  /\ http = Loaded

Cycle ==
  \/ \E i \in Slots, healthy \in BOOLEAN : HealthResult(i, healthy)
  \/ \E i \in Slots, ok \in BOOLEAN : ListResult(i, ok)
  \/ \E i \in Slots, t \in Titles, res \in {"throws", "dropped", "ok"} :
       FetchResult(i, t, res)
  \/ \E i \in Slots, t \in Titles, rejected \in BOOLEAN,
        good \in 0..MaxParagraphs : EmbedResult(i, t, rejected, good)

\* what the document store holds under a title that looks like a file path:
\* nothing, or an import artifact without text and without modified field
PathArtifact == [exists |-> TRUE, text |-> 0, modified |-> Undefined]

\* the titles that are paths of files the wiki has not imported
FilePaths == {t \in Titles : startsWith(TitleChars(t), <<"/">>)}

\* Spec: a worker driven by forceSync over a document store whose logical
\* documents are being written and deleted while cycles run; everything
\* happens within one clock tick, where the zone offset has no effect on the
\* retry rule.
Init ==
  /\ Constructed
  /\ deps = Initialised
  /\ docs \in [Titles -> {AbsentDoc, PathArtifact}]
  /\ \A t \in Titles \ FilePaths : docs[t] = AbsentDoc
  /\ edits = 0
  /\ now = 0
  /\ tz = 0
  /\ batchSize \in {1, MaxBatch}
  /\ enabled = FALSE

Next ==
  \/ ForceSync
  \/ Cycle
  \/ \E t \in LogicalTitles, text \in Texts, modified \in Tokens :
       Edit(t, text, modified)
  \/ \E t \in LogicalTitles : Delete(t)

Spec == Init /\ [][Next]_vars

\* SpecLife: a worker that the host starts and stops, with its interval timer
\* and forceSync, over a document store that is not edited.
InitLife ==
  /\ Constructed
  /\ deps = Initialised
  /\ docs \in [Titles -> {AbsentDoc, PathArtifact,
                          [exists |-> TRUE, text |-> 1, modified |-> "T1"]}]
  /\ \A t \in Titles : t \in FilePaths <=> docs[t] = PathArtifact
  /\ \A t \in Titles \ (LogicalTitles \cup FilePaths) : docs[t] = AbsentDoc
  /\ edits = 0
  /\ now = 0
  /\ tz = 0
  /\ batchSize \in {1, MaxBatch}
  /\ enabled \in BOOLEAN

NextLife ==
  \/ Start
  \/ StartResume
  \/ Stop
  \/ TimerFire
  \/ ForceSync
  \/ Cycle

SpecLife == InitLife /\ [][NextLife]_vars

\* SpecClock: a worker driven by forceSync over a document store that is not
\* edited, in any time zone, with the clock running.
InitClock ==
  /\ Constructed
  /\ deps = Initialised
  /\ docs \in [Titles -> {AbsentDoc} \cup
                          [exists : {TRUE}, text : {0, MaxParagraphs},
                           modified : {"T1", Undefined}]]
  /\ \A t \in Titles : validTiddler(t) \/ docs[t] = AbsentDoc
  /\ edits = 0
  /\ now = 0
  /\ tz \in TzOffsets
  /\ batchSize = MaxBatch
  /\ enabled = FALSE

NextClock ==
  \/ ForceSync
  \/ Cycle
  \/ Tick

SpecClock == InitClock /\ [][NextClock]_vars

\* SpecTitles: a worker driven by forceSync over a document store that is
\* not edited and that holds, under any of the titles, a document with text;
\* under a file path it may hold an import artifact instead.
InitTitles ==
  /\ Constructed
  /\ deps = Initialised
  /\ docs \in [Titles -> {AbsentDoc, PathArtifact,
                          [exists |-> TRUE, text |-> 1, modified |-> "T1"]}]
  /\ \A t \in Titles \ FilePaths : docs[t] # PathArtifact
  /\ edits = 0
  /\ now = 0
  /\ tz = 0
  /\ batchSize = MaxBatch
  /\ enabled = FALSE

NextTitles ==
  \/ ForceSync
  \/ Cycle

SpecTitles == InitTitles /\ [][NextTitles]_vars

\* SpecSearch: a worker driven by forceSync fills the database (when the
\* embedding subsystem was initialised) over a document store that is not
\* edited, and at any moment of that a search_tiddlers request of any shape
\* is handled; the behaviour is followed up to the handler's answer.
InitSearch ==
  /\ Constructed
  /\ deps \in [embeddingsDB : BOOLEAN, ollamaClient : BOOLEAN]
  /\ docs \in [Titles -> {AbsentDoc} \cup
                          [exists : {TRUE}, text : Texts, modified : {"T1"}]]
  /\ docs["A"].text \in {0, MaxParagraphs}
  /\ docs["B"] \in {AbsentDoc, docs["A"]}
  /\ docs["c.tidy"].text \in {0, 1}
  /\ \A t \in FilePaths : docs[t] = AbsentDoc
  /\ edits = 0
  /\ now = 0
  /\ tz = 0
  /\ batchSize = MaxBatch
  /\ enabled = FALSE

NextSearch ==
  \/ reply = NoReply /\ deps = Initialised /\ ForceSync
  \/ reply = NoReply /\ deps = Initialised /\ Cycle
  \/ \E input \in Inputs, ext \in Outcomes :
       reply = NoReply /\ Search(input, ext)

SpecSearch == InitSearch /\ [][NextSearch]_vars

\* SpecStore: the vector table of an EmbeddingsDB in a process without a
\* worker: vectors are inserted, deleted and searched in any order on a
\* database that starts empty; the behaviour is followed up to the answer of
\* a search.
InitStore ==
  /\ Constructed
  /\ deps = Initialised
  /\ docs = [t \in Titles |-> AbsentDoc]
  /\ edits = 0
  /\ now = 0
  /\ tz = 0
  /\ batchSize = MaxBatch
  /\ enabled = FALSE

NextStore ==
  \/ \E t \in Titles : InsertEmbedding(t, "T1")
  \/ \E t \in Titles : DeleteEmbeddingsForTiddler(t)
  \/ \E query \in Queries, limit \in {1, MaxLimit, DefaultLimit} :
       SearchSimilar(query, limit)

SpecStore == InitStore /\ [][NextStore]_vars

\* SpecStatus: the status table of the same database: records are upserted
\* and deleted in any order.
StatusTitles == {"A", "B"}

NextStatus ==
  \/ \E t \in StatusTitles, a \in StatusArgs : UpdateSyncStatus(t, a)
  \/ \E t \in StatusTitles : DeleteEmbeddingsForTiddler(t)

SpecStatus == InitStore /\ [][NextStatus]_vars

\* SpecChunk: chunkText is called with any text of up to MaxChars
\* characters and any limit of up to MaxTokens tokens.
NextChunk ==
  /\ reply = NoReply
  /\ \E text \in Strings(MaxChars), limit \in 1..MaxTokens :
       ChunkText(text, limit)

SpecChunk == InitStore /\ [][NextChunk]_vars

\* SpecCrud: one create_tiddler, update_tiddler or delete_tiddler request is
\* handled while the documents are also written and deleted by others.
InitCrud ==
  /\ Constructed
  /\ deps = Initialised
  /\ docs \in [Titles -> {AbsentDoc,
                          [exists |-> TRUE, text |-> 1, modified |-> "T1"]}]
  /\ \A t \in Titles \ LogicalTitles : docs[t] = AbsentDoc
  /\ edits = 0
  /\ now = 0
  /\ tz = 0
  /\ batchSize = MaxBatch
  /\ enabled = FALSE

NextCrud ==
  \/ \E input \in CrudInputs : CrudCall(input)
  \/ \E ok \in BOOLEAN : LookupResult(ok)
  \/ \E ok \in BOOLEAN, timestamp \in Tokens : WriteResult(ok, timestamp)
  \/ \E t \in LogicalTitles, text \in Texts, modified \in Tokens :
       Edit(t, text, modified)
  \/ \E t \in LogicalTitles : Delete(t)

SpecCrud == InitCrud /\ [][NextCrud]_vars

\* two create_tiddler requests handled at the same time, and no other writer
NextRace ==
  \/ \E input \in CreateInputs : CrudCall(input)
  \/ \E ok \in BOOLEAN : LookupResult(ok)
  \/ \E ok \in BOOLEAN : WriteResult(ok, "T2")
  \/ \E input \in CreateInputs : OtherCall(input)
  \/ \E ok \in BOOLEAN : OtherLookupResult(ok)
  \/ \E ok \in BOOLEAN : OtherWriteResult(ok, "T2")

SpecRace == InitCrud /\ [][NextRace]_vars

\* SpecQuiet: the documents are written and deleted only between cycles, so
\* that the listing a cycle got is what the document store holds when the
\* cycle ends
NextQuiet ==
  \/ ForceSync
  \/ Cycle
  \/ ~isSyncing /\ \E t \in LogicalTitles, text \in Texts, modified \in Tokens :
                     Edit(t, text, modified)
  \/ ~isSyncing /\ \E t \in LogicalTitles : Delete(t)

SpecQuiet == Init /\ [][NextQuiet]_vars

\* one size check of a result list
NextSize ==
  reply = NoReply
    /\ \E length \in 1..MaxResults, perItem \in ItemTokens :
         ValidateResponseSize(length, perItem)

SpecSize == InitStore /\ [][NextSize]_vars

\* SpecPages: a document store that nobody writes, and one caller paging
\* through the matches of a filter with search_tiddlers in filter mode.
InitPages ==
  /\ InitSearch
  /\ deps = Initialised

NextPages ==
  \/ \E filter \in Filters, includeText \in BOOLEAN, limit \in 1..MaxLimit :
       StartRun(filter, includeText, limit)
  \/ \E ext \in Outcomes : RequestPage(ext)

SpecPages == InitPages /\ [][NextPages]_vars

\* SpecUpdate: updateTiddlerObject called once, on any current tiddler,
\* with any updates, by the configured user, at either of two moments
NextUpdate ==
  reply = NoReply
    /\ \E current \in Currents, updates \in Updates, timestamp \in Tokens :
         UpdateTiddlerObject(current, updates, "user", timestamp)

SpecUpdate == InitStore /\ [][NextUpdate]_vars

\* getBaseUrl calls, settling resolutions and the passing of time
NextUrl ==
  \/ GetBaseUrl
  \/ \E p \in 1..MaxResolves, ok \in BOOLEAN, url \in Urls :
       ResolutionResult(p, ok, url)
  \/ Elapse

SpecUrl == InitStore /\ [][NextUrl]_vars

\* SpecFair: a worker that is started and never stopped, driven by its
\* interval timer alone, while the embedding service and the document store
\* stay reachable: the health check reports healthy, the listing and every
\* fetch answer.  An embedding request may still be rejected and an insert
\* may still throw.  The document store is written a bounded number of times.
InitFair ==
  /\ Constructed
  /\ deps = Initialised
  /\ docs \in [Titles -> {AbsentDoc, PathArtifact}]
  /\ \A t \in Titles \ FilePaths : docs[t] = AbsentDoc
  /\ edits = 0
  /\ now = 0
  /\ tz = 0
  /\ batchSize = MaxBatch
  /\ enabled = TRUE

CycleReachable ==
  \/ \E i \in Slots : HealthResult(i, TRUE)
  \/ \E i \in Slots : ListResult(i, TRUE)
  \/ \E i \in Slots, t \in Titles : FetchResult(i, t, "ok")
  \/ \E i \in Slots, t \in Titles, rejected \in BOOLEAN,
        good \in 0..MaxParagraphs : EmbedResult(i, t, rejected, good)

NextFair ==
  \/ Start
  \/ StartResume
  \/ TimerFire
  \/ CycleReachable
  \/ \E t \in LogicalTitles, text \in {0, MaxParagraphs}, modified \in Tokens :
       Edit(t, text, modified)
  \/ \E t \in LogicalTitles : Delete(t)

\* setInterval keeps firing while the interval is set, start() resumes after
\* its health check, and every awaited call settles (each is bounded by a
\* timeout)
Fairness ==
  /\ WF_vars(StartResume)
  /\ WF_vars(TimerFire)
  /\ WF_vars(CycleReachable)

SpecFair == InitFair /\ [][NextFair]_vars /\ Fairness

\* SpecCalls: the worker's life with every outcome of every external call,
\* each request seen in its two stages: until fetch() resolves, the timer of
\* fetchWithTimeout is armed and the request is aborted when it fires; once
\* the head of the response is in, the timer is cleared and nothing in the
\* code bounds the reading of the body.
NextCalls ==
  \/ NextLife
  \/ \E i \in Slots, call \in Calls : Response(i, call)

\* what the timers guarantee: the interval keeps firing, start() resumes,
\* the health check settles within TIMEOUT_HEALTH, and a request whose
\* response head is still outstanding gets its head or is aborted
FairnessCalls ==
  /\ WF_vars(StartResume)
  /\ WF_vars(TimerFire)
  /\ WF_vars(\E i \in Slots, healthy \in BOOLEAN : HealthResult(i, healthy))
  /\ \A i \in Slots, call \in Calls :
       WF_vars(call \notin responded[i]
                 /\ (Response(i, call) \/ Settles(i, call)))

SpecCalls == InitLife /\ [][NextCalls]_vars /\ FairnessCalls


\* =================================================================== claims

CyclesInProgress == {i \in Slots : pc[i] # "idle"}

\* a runSync call: the interval callback, forceSync(), or start()'s initial sync
Trigger == TimerFire \/ ForceSync \/ StartResume

\* C1: at most one reconciliation cycle is in progress at any time, the
\* in-progress flag is set exactly while one is, and a runSync call that
\* arrives while a cycle is in progress returns at the guard: it issues no
\* health check, listing, fetch or embedding call (no invocation leaves
\* "idle", no indexTiddler call appears), writes no chunk row and no status
\* record, and leaves the flag set.
C1_AtMostOneCycle ==
  /\ [](/\ Cardinality(CyclesInProgress) <= 1
        /\ isSyncing <=> CyclesInProgress # {})
  /\ [][(isSyncing /\ Trigger) =>
          (UNCHANGED <<cycleVars, dbVars>> /\ skipped')]_vars

\* a call was turned away while a cycle is awaiting an embedding response
C1_Witness ==
  /\ skipped
  /\ isSyncing
  /\ \E i \in Slots, t \in Titles : pc[i] = "batch" /\ proc[i][t].st = "embed"

Quiescent == \A i \in Slots : pc[i] = "idle"

\* C2: whenever no cycle is in progress, every title that has a status
\* record stores exactly total_chunks chunk rows if its status is 'indexed'
\* and no chunk row at all if its status is 'empty' or 'error'.
C2_ChunkCountMatchesStatus ==
  Quiescent =>
    \A t \in Titles :
      syncStatus[t].exists =>
        /\ syncStatus[t].status = "indexed" =>
             Len(embeddings[t]) = syncStatus[t].total_chunks
        /\ syncStatus[t].status \in {"empty", "error"} =>
             Len(embeddings[t]) = 0

\* the rows of one title come from one version of the document: the same
\* source text and modified value, chunk ids 0, 1, ... in insertion order
OneVersion(rows) ==
  \A k \in 1..Len(rows) :
    /\ rows[k].chunk_id = k - 1
    /\ rows[k].modified = rows[1].modified
    /\ rows[k].chunk_text = <<rows[1].chunk_text[1], k>>

\* rows are exactly the chunks of a document with this text and token
AllChunksOf(rows, text, modified) ==
  /\ Len(rows) = Len(chunkText(text))
  /\ \A k \in 1..Len(rows) :
       /\ rows[k].chunk_text = chunkText(text)[k]
       /\ rows[k].modified = OrElse(modified, "")

\* C3: one document's indexing writes in the order delete, insert, status.
\* New rows are inserted only for a title whose old rows are all gone, so the
\* rows of a title never mix two versions; and an 'indexed' record for token
\* V is written only in a step after which every chunk row of version V is
\* stored, so an 'indexed' record always sits next to total_chunks rows.
C3_DeleteInsertStatus ==
  /\ [](\A t \in Titles :
          /\ OneVersion(embeddings[t])
          /\ (\E i \in Slots : proc[i][t].st = "embed") =>
               embeddings[t] = <<>> /\ ~syncStatus[t].exists
          /\ syncStatus[t].status = "indexed" =>
               Len(embeddings[t]) = syncStatus[t].total_chunks)
  /\ [][\A t \in Titles :
          /\ Len(embeddings'[t]) > Len(embeddings[t]) => embeddings[t] = <<>>
          /\ (syncStatus'[t] # syncStatus[t]
                /\ syncStatus'[t].status = "indexed") =>
               \E i \in Slots :
                 /\ proc[i][t].st = "embed"
                 /\ AllChunksOf(embeddings'[t], proc[i][t].text,
                                proc[i][t].modified)
                 /\ syncStatus'[t].last_modified =
                      normalizeModified(proc[i][t].modified)
                 /\ syncStatus'[t].total_chunks = Len(embeddings'[t])]_vars

\* a title indexed at T1 has been re-indexed at T2 with two chunks
C3_Witness ==
  \E i \in Slots, t \in Titles :
    /\ before[i].embeddings[t] # <<>>
    /\ before[i].embeddings[t][1].modified = "T1"
    /\ syncStatus[t].status = "indexed"
    /\ syncStatus[t].last_modified = "T2"
    /\ Len(embeddings[t]) = 2
    /\ embeddings[t][2].modified = "T2"

\* a document that was indexed when invocation i started its cycle is still
\* indexed, under the same status record and with the same chunk rows
Kept(i, t) ==
  before[i].syncStatus[t].status = "indexed" =>
    /\ syncStatus[t] = before[i].syncStatus[t]
    /\ embeddings[t] = before[i].embeddings[t]

\* a collaborator is unreachable at the call invocation i makes for title t:
\* the fetch's filter request fails, its getTiddler request fails (for a
\* document that does have text), or the embedding request fails
UnreachableFor(i, t) ==
  \/ FetchResult(i, t, "throws")
  \/ HasText(docs[t]) /\ FetchResult(i, t, "dropped")
  \/ EmbedResult(i, t, TRUE, 0)

\* C4: a cycle that finds the embedding service or the document store
\* unreachable, at its health check, at its listing, or at the fetch or the
\* embedding call of a document, removes or alters no chunk row and no status
\* record that existed before it started: every document that was indexed
\* when the cycle started is still indexed, with the same record and rows,
\* when the cycle ends (for every title when the health check or the listing
\* fails; for the document whose own call failed when that call ends the
\* cycle).
C4_OutageAltersNothing ==
  [][\A i \in Slots :
       /\ (HealthResult(i, FALSE) \/ ListResult(i, FALSE)) =>
            \A t \in Titles : Kept(i, t)'
       /\ \A t \in Titles :
            (UnreachableFor(i, t) /\ pc'[i] = "idle") => Kept(i, t)']_vars

\* the call invocation i made for title t fails: its fetch throws, the
\* embedding request is rejected, or an insert into the vector store throws
FailsFor(i, t) ==
  \/ FetchResult(i, t, "throws")
  \/ EmbedResult(i, t, TRUE, 0)
  \/ \E good \in 0..MaxParagraphs :
       /\ good < Len(chunkText(proc[i][t].text))
       /\ EmbedResult(i, t, FALSE, good)

Processed(st) == st.indexed + st.empty + st.error

\* C5: a failure while one document is processed stays inside indexTiddler.
\* No cycle ends by a per-document exception; the failing call settles with
\* 'error' while the other calls of its batch go on untouched; a cycle that
\* reached its batches ends 'completed' with every queued document counted
\* as indexed, empty or error; and when the embedding request fails the
\* document's record becomes 'error' with the message and total_chunks 0.
C5_FailureStaysLocal ==
  /\ [](\A i \in Slots : outcome[i] # "batchFailed")
  /\ [][\A i \in Slots :
          /\ (pc[i] = "batch" /\ pc'[i] = "idle") =>
               /\ outcome'[i] = "completed"
               /\ Processed(stats'[i]) = Len(queue[i])
          /\ \A t \in Titles :
               /\ (FailsFor(i, t) /\ pc'[i] = "batch") =>
                    \A u \in Titles \ {t} :
                      \/ proc'[i][u] = proc[i][u]
                      \/ /\ proc[i][u].st \in Results \cup {"none"}
                         /\ proc'[i][u].st \in {"fetch", "none"}
               /\ EmbedResult(i, t, TRUE, 0) =>
                    /\ syncStatus'[t].status = "error"
                    /\ syncStatus'[t].error_message = EmbeddingError
                    /\ syncStatus'[t].total_chunks = 0]_vars

\* a cycle has completed in which one document failed and another was indexed
C5_Witness ==
  \E i \in Slots :
    /\ outcome[i] = "completed"
    /\ stats[i].error >= 1
    /\ stats[i].indexed >= 1
    /\ \E t \in Titles : syncStatus[t].error_message = EmbeddingError

\* C6: when indexTiddler's fetch finds the document absent or with empty
\* text, then on its return no chunk row is stored for the title, the status
\* record is 'empty' with total_chunks 0 and the document's sentinel-
\* normalized token (the listed token, or the token the store holds now),
\* and no embedding call is pending for it, whatever the record was before.
C6_EmptyClearsRows ==
  [][\A i \in Slots, t \in Titles :
       (FetchResult(i, t, "ok") /\ ~HasText(docs[t])) =>
         /\ embeddings'[t] = <<>>
         /\ syncStatus'[t].exists
         /\ syncStatus'[t].status = "empty"
         /\ syncStatus'[t].total_chunks = 0
         /\ syncStatus'[t].last_modified \in
              {normalizeModified(metaOf(queue[i], t).modified),
               normalizeModified(docs[t].modified)}
         /\ proc'[i][t].st # "embed"]_vars

\* the listing step of invocation i queues every listed document whose
\* sentinel-normalized token differs from the last_modified of its record,
\* whatever the record's status and age
ChangedIsQueued(i) ==
  ListResult(i, TRUE) =>
    \A t \in Titles :
      (/\ docs[t].exists
       /\ syncStatus[t].exists
       /\ syncStatus[t].last_modified # normalizeModified(docs[t].modified))
      => queued(queue'[i], t)

\* invocation i's cycle began with t recorded 'empty' and queued t under a
\* token other than the recorded one
EmptyRequeued(i, t) ==
  /\ before[i].syncStatus[t].status = "empty"
  /\ queued(queue[i], t)
  /\ normalizeModified(metaOf(queue[i], t).modified)
       # before[i].syncStatus[t].last_modified

ErrorUnchanged(t) ==
  /\ docs[t].exists
  /\ validTiddler(t)
  /\ syncStatus[t].status = "error"
  /\ syncStatus[t].last_modified = normalizeModified(docs[t].modified)

\* C8: for a document in status 'error' with an unchanged token, a cycle
\* that finds less than 24 hours elapsed since the record's last_indexed
\* time (still so when it takes its decisions) does not queue the document,
\* so it issues no fetch and no embedding call for it; a cycle that starts
\* when more than 24 hours have elapsed queues it for reprocessing.
\* last_indexed is the UTC reading datetime('now') stored, so the time
\* elapsed is the clock minus that reading.
C8_ErrorRetryBoundary ==
  [][\A i \in Slots, t \in Titles :
       (ListResult(i, TRUE) /\ ErrorUnchanged(t)) =>
         /\ dateNow(now) - syncStatus[t].last_indexed < RETRY_ERROR_AFTER_MS
              => ~queued(queue'[i], t)
         /\ startTime[i] - syncStatus[t].last_indexed > RETRY_ERROR_AFTER_MS
              => queued(queue'[i], t)]_vars

\* t is listed and its record is 'indexed' or 'empty' under its present
\* sentinel-normalized token
UpToDate(t) ==
  /\ docs[t].exists
  /\ syncStatus[t].status \in {"indexed", "empty"}
  /\ syncStatus[t].last_modified = normalizeModified(docs[t].modified)

Listed == {t \in Titles : docs[t].exists /\ validTiddler(t)}

\* C9: a cycle does not queue a document whose record is 'indexed' or
\* 'empty' under an unchanged token; a record or a title's rows change only
\* while an indexTiddler call for that title, queued by the running cycle, is
\* in progress, so the cycle issues no fetch and no embedding request for a
\* document it did not queue and leaves its record and rows unchanged; and a
\* cycle that finds every listed document up to date queues nothing and ends
\* with the database as it found it, however often it is run.
C9_IdempotentResync ==
  [][/\ \A i \in Slots :
          ListResult(i, TRUE) =>
            /\ \A t \in Titles : UpToDate(t) => ~queued(queue'[i], t)
            /\ (\A t \in Listed : UpToDate(t)) =>
                 /\ outcome'[i] = "nothing"
                 /\ pc'[i] = "idle"
                 /\ UNCHANGED dbVars
     /\ \A t \in Titles :
          /\ (syncStatus'[t] # syncStatus[t] \/ embeddings'[t] # embeddings[t])
               => \E i \in Slots :
                    /\ pc[i] = "batch"
                    /\ queued(queue[i], t)
                    /\ proc[i][t].st \in {"fetch", "embed"}
          /\ \A i \in Slots :
               proc'[i][t].st \in {"fetch", "embed"} =>
                 queued(queue'[i], t)]_vars

\* a cycle over an indexed document and an empty one, both unchanged, has
\* ended without queueing anything
C9_Witness ==
  \E i \in Slots, t \in Titles, u \in Titles :
    /\ outcome[i] = "nothing"
    /\ before[i].syncStatus[t].status = "indexed"
    /\ before[i].syncStatus[u].status = "empty"
    /\ UpToDate(t)
    /\ UpToDate(u)
    /\ before[i] = DB(embeddings, syncStatus)

\* no record has an empty or absent last_modified, and the record of a
\* document without a modified token carries the sentinel, whatever its status
SentinelStored ==
  \A t \in Titles :
    syncStatus[t].exists =>
      /\ syncStatus[t].last_modified \notin {"", Undefined}
      /\ docs[t].modified = Undefined =>
           syncStatus[t].last_modified = MISSING_TIMESTAMP

\* t is listed without a modified token and an earlier cycle has recorded it
Tokenless(t) ==
  /\ docs[t].exists
  /\ docs[t].modified = Undefined
  /\ syncStatus[t].exists

\* C10 as claimed: no status record has an empty or absent last_modified; a
\* document without a modified token is recorded with the sentinel for every
\* outcome; and a later cycle that lists it, still without a token, does not
\* queue it for reprocessing (stated for a process whose local time is UTC,
\* where the stored last_indexed is read back as the instant it was written).
C10_Original ==
  /\ []SentinelStored
  /\ [][\A i \in Slots, t \in Titles :
          (tz = 0 /\ ListResult(i, TRUE) /\ Tokenless(t))
          => ~queued(queue'[i], t)]_vars

\* C10 (amended): no status record has an empty or absent last_modified; a
\* document without a modified token is recorded with the sentinel for every
\* outcome; and a later cycle that lists it, still without a token, does not
\* queue it for reprocessing when its record is 'indexed' or 'empty' (an
\* 'error' record is retried once the retry rule's cooldown has run out).
C10_SentinelNormalization ==
  /\ []SentinelStored
  /\ [][\A i \in Slots, t \in Titles :
          (/\ ListResult(i, TRUE)
           /\ Tokenless(t)
           /\ syncStatus[t].status \in {"indexed", "empty"})
          => ~queued(queue'[i], t)]_vars

\* a cycle has run over a tokenless indexed document and a tokenless failed
\* one, both recorded under the sentinel, and queued neither
C10_Witness ==
  \E i \in Slots, t \in Titles, u \in Titles :
    /\ outcome[i] = "nothing"
    /\ before[i] = DB(embeddings, syncStatus)
    /\ Tokenless(t)
    /\ Tokenless(u)
    /\ syncStatus[t].status = "indexed"
    /\ syncStatus[t].last_modified = MISSING_TIMESTAMP
    /\ syncStatus[u].status = "error"
    /\ syncStatus[u].last_modified = MISSING_TIMESTAMP

\* if t is listed and is a logical title, its record carries its present
\* sentinel-normalized token
Reconciled(t) ==
  (docs[t].exists /\ validTiddler(t)) =>
    /\ syncStatus[t].exists
    /\ syncStatus[t].last_modified = normalizeModified(docs[t].modified)

C12_UnhealthySkips ==
  /\ [][\A i \in Slots :
          HealthResult(i, FALSE) =>
            /\ pc'[i] = "idle"
            /\ outcome'[i] = "unhealthy"
            /\ proc'[i] = [t \in Titles |-> NoProc]
            /\ UNCHANGED dbVars
            /\ DB(embeddings', syncStatus') = before[i]
            /\ ~isSyncing'
            /\ Quiescent'
            /\ UNCHANGED lifeVars]_vars
  /\ [][\A i \in Slots :
          /\ (pc[i] = "idle" /\ pc'[i] # "idle") =>
               (Trigger /\ pc'[i] = "health")
          /\ (pc[i] = "health" /\ pc'[i] # "health") =>
               (HealthResult(i, TRUE) <=> pc'[i] = "list")]_vars

\* a cycle was skipped as unhealthy while the timer is set, one document is
\* indexed and another listed document has no record yet
C12_Witness ==
  /\ Quiescent
  /\ timers > 0
  /\ \E i \in Slots : outcome[i] = "unhealthy"
  /\ \E t \in Listed : syncStatus[t].status = "indexed"
  /\ \E t \in Listed : ~syncStatus[t].exists

Endings == {"completed", "nothing", "unhealthy", "listFailed", "batchFailed"}

\* C13: every started cycle eventually ends, and however it ends (completed,
\* nothing to do, skipped as unhealthy, listing or batch thrown) the
\* in-progress flag is cleared, so that the next runSync call starts a new
\* cycle.
C13_CycleTerminates ==
  /\ isSyncing ~> ~isSyncing
  /\ [][\A i \in Slots :
          (pc[i] # "idle" /\ pc'[i] = "idle") =>
            (~isSyncing' /\ outcome'[i] \in Endings)]_vars
  /\ [][(~isSyncing /\ Trigger) => isSyncing']_vars

\* the indexTiddler calls of invocation i that have not settled
InFlight(i) == {t \in Titles : proc[i][t].st \in {"fetch", "embed"}}

\* the slice the loop of invocation i is at
Batch(i) == batchTitles(queue[i], batchStart[i], batchSize)

\* C14: while a cycle is in its batches, at most batchSize indexTiddler calls
\* are in flight and all of them belong to the current slice of the queue;
\* the queue holds no title twice and does not change; the loop moves on by
\* exactly batchSize, and only in the step in which the last call of the
\* current slice settles; a call starts only for a title of the slice the
\* loop has just reached; and the cycle ends only after its last slice, with
\* as many results counted as documents were queued.  So every queued
\* document is processed exactly once per cycle.
C14_BatchDiscipline ==
  /\ [](\A i \in Slots :
          pc[i] = "batch" =>
            /\ Cardinality(InFlight(i)) <= batchSize
            /\ InFlight(i) \subseteq Batch(i)
            /\ \A t \in Titles \ Batch(i) : proc[i][t] = NoProc
            /\ batchStart[i] < Len(queue[i])
            /\ \A j, k \in 1..Len(queue[i]) :
                 queue[i][j].title = queue[i][k].title => j = k)
  /\ [][\A i \in Slots :
          /\ (pc[i] = "batch" /\ pc'[i] = "batch") =>
               /\ queue'[i] = queue[i]
               /\ \/ batchStart'[i] = batchStart[i]
                  \/ /\ batchStart'[i] = batchStart[i] + batchSize
                     /\ Cardinality(InFlight(i)) = 1
                     /\ InFlight(i) \cap {t \in Titles : proc'[i][t].st # "none"} = {}
               /\ \A t \in Titles :
                    (proc[i][t].st # "fetch" /\ proc'[i][t].st = "fetch") =>
                      /\ batchStart'[i] # batchStart[i]
                      /\ proc[i][t].st = "none"
                      /\ t \in batchTitles(queue[i], batchStart'[i], batchSize)
          /\ (pc[i] = "batch" /\ pc'[i] = "idle") =>
               /\ batchStart[i] + batchSize >= Len(queue[i])
               /\ Cardinality(InFlight(i)) = 1
               /\ Processed(stats'[i]) = Len(queue[i])]_vars

\* with batchSize 1 and two documents queued, the first call has settled and
\* the second is awaiting its embeddings
C14_Witness ==
  \E i \in Slots :
    /\ pc[i] = "batch"
    /\ batchSize = 1
    /\ Len(queue[i]) = 2
    /\ batchStart[i] = 1
    /\ proc[i][queue[i][2].title].st = "embed"
    /\ stats[i].indexed = 1

endsWith(s, suffix) ==
  /\ Len(suffix) <= Len(s)
  /\ SubSeq(s, Len(s) - Len(suffix) + 1, Len(s)) = suffix

\* a title that looks like a raw filesystem path
PathLike(t) ==
  \/ startsWith(TitleChars(t), <<"/">>)
  \/ endsWith(TitleChars(t), <<".", "t", "i", "d">>)

\* C15: a document whose title starts with '/' or carries the '.tid' file
\* extension never has an indexTiddler call, a status record or a chunk row,
\* and every other listed document is eligible: the cycle whose listing
\* finds it without a status record queues it.
C15_PathTitlesExcluded ==
  /\ [](\A t \in Titles :
          PathLike(t) =>
            /\ ~syncStatus[t].exists
            /\ embeddings[t] = <<>>
            /\ \A i \in Slots : proc[i][t] = NoProc)
  /\ [][\A i \in Slots, t \in Titles :
          (ListResult(i, TRUE) /\ docs[t].exists /\ ~PathLike(t)
             /\ ~syncStatus[t].exists)
            => queued(queue'[i], t)]_vars

\* the handler made a call of this name while it served the last request
Called(fn) == \E k \in 1..Len(reply.calls) : reply.calls[k][1] = fn

\* C16: a semantic or hybrid request is answered with the 'not available'
\* error whenever the embeddings database or the embedding client does not
\* exist, and with the 'not yet indexed' error, never with a result list,
\* whenever both exist and the vector store holds no vector; in both cases
\* without an embedding request.
C16_NoVectorsNoSearch ==
  reply.mode \in {"semantic", "hybrid"} =>
    /\ (~deps.embeddingsDB \/ ~deps.ollamaClient) =>
         /\ reply.kind = "notAvailable"
         /\ ~Called("generateQueryEmbedding")
    /\ (deps = Initialised
          /\ getEmbeddingsCount(DB(embeddings, syncStatus)) = 0) =>
         /\ reply.kind = "notIndexed"
         /\ ~Called("generateQueryEmbedding")

\* the rows the vector store returns for the last request's query and limit,
\* in its distance order
SemanticList ==
  searchSimilar(DB(embeddings, syncStatus), reply.input.semantic,
                IF reply.input.limit = None THEN DefaultLimit
                ELSE reply.input.limit)

\* the titles the last request's filter matches
MatchSet == {t \in Titles : docs[t].exists /\ matches(reply.input.filter, t)}

Rows(results) ==
  [k \in 1..Len(results) |-> <<results[k].title, results[k].chunk_id>>]

ResultSet(failing) ==
  IF reply.mode = "filter"
  THEN queryTiddlers(reply.input.filter, reply.input.includeText,
                     IF reply.input.offset = None THEN 0
                     ELSE reply.input.offset,
                     reply.input.limit, failing)
  ELSE LET kept == IF reply.mode = "hybrid"
                   THEN SelectSeq(SemanticList, LAMBDA r : r.title \in MatchSet)
                   ELSE SemanticList
       IN  [k \in 1..Len(kept) |->
              IF reply.input.includeText /\ docs[kept[k].title].exists
              THEN Item(kept[k].title, kept[k].chunk_id,
                        docs[kept[k].title].text)
              ELSE kept[k]]

\* C18: when the handler, in filter, semantic or hybrid mode, has its
\* result set, the token count it observes is the estimate of that set; if
\* the estimate exceeds MAX_RESPONSE_TOKENS the answer is an error that
\* carries the number of results, the observed token count and a suggested
\* limit, and none of the data; if it does not, the answer is the data.
C18_SizeCheck ==
  reply.kind \in {"data", "tooLarge"} =>
    /\ \E failing \in {Undefined, "A"} :
         /\ reply.tokens = countTokens(ResultSet(failing))
         /\ reply.matched = Len(ResultSet(failing))
         /\ reply.kind = "data" => reply.results = ResultSet(failing)
    /\ reply.tokens > MAX_RESPONSE_TOKENS =>
         /\ reply.kind = "tooLarge"
         /\ reply.isError
         /\ reply.results = <<>>
         /\ reply.matched >= 1
         /\ reply.suggested # None
    /\ reply.tokens <= MAX_RESPONSE_TOKENS =>
         /\ reply.kind = "data"
         /\ ~reply.isError
         /\ Len(reply.results) = reply.matched

\* a semantic request with text was answered with the diagnostic
C18_Witness ==
  /\ reply.mode = "semantic"
  /\ reply.kind = "tooLarge"
  /\ reply.input.includeText
  /\ reply.tokens > MAX_RESPONSE_TOKENS
  /\ reply.suggested >= 1

\* the services answered the last request, getTiddler being rejected for
\* `failing`
Served(failing) ==
  reply = handleSearchTiddlers(reply.input, deps, DB(embeddings, syncStatus),
                               [embed |-> TRUE, list |-> TRUE,
                                failing |-> failing])

\* what the handler answers when the last request is issued again with the
\* suggested limit, the stores and the services being as they were
Reissued(failing) ==
  handleSearchTiddlers([reply.input EXCEPT !.limit = reply.suggested], deps,
                       DB(embeddings, syncStatus),
                       [embed |-> TRUE, list |-> TRUE, failing |-> failing])

\* the results all have the same token size
Uniform(results) ==
  \A j, k \in 1..Len(results) :
    countTokens(<<results[j]>>) = countTokens(<<results[k]>>)

\* the suggested limit is the floor formula
FloorFormula ==
  /\ reply.suggested * reply.tokens <= MAX_RESPONSE_TOKENS * reply.matched
  /\ (reply.suggested + 1) * reply.tokens > MAX_RESPONSE_TOKENS * reply.matched

ModeOf(input) ==
  IF input.filter # Undefined /\ input.semantic # Undefined THEN "hybrid"
  ELSE IF input.semantic # Undefined THEN "semantic"
  ELSE IF input.filter # Undefined THEN "filter"
  ELSE "none"

\* the one call a filter-only request makes
StructuralCall(input) ==
  <<"queryTiddlers", input.filter, input.includeText,
    IF input.offset = None THEN 0 ELSE input.offset, input.limit>>

\* C20: every answered search request was served in the one mode that the
\* presence of its filter and of its semantic query selects; a request with
\* neither, and no other, is rejected; a request with a filter and no
\* semantic query made exactly one call, to the structural query with the
\* request's includeText, offset and limit, and none to the embedding client
\* or the vector store, it is never answered that semantic search is
\* unavailable or that nothing is indexed, and whenever the structural query
\* is answered it is answered with data or with the size diagnostic, whether
\* or not the embedding subsystem is initialised.
C20_ModeByPresence ==
  /\ [](reply # NoReply =>
         /\ reply.mode = ModeOf(reply.input)
         /\ reply.kind = "rejected" <=> ModeOf(reply.input) = "none"
         /\ ModeOf(reply.input) = "filter" =>
              /\ reply.calls = <<StructuralCall(reply.input)>>
              /\ reply.kind \in {"data", "tooLarge", "throws"})
  /\ [][\A ext \in Outcomes :
          (/\ reply' # reply
           /\ reply' = handleSearchTiddlers(reply'.input, deps,
                                            DB(embeddings, syncStatus), ext)
           /\ ModeOf(reply'.input) = "filter"
           /\ ext.list) =>
            reply'.kind \in {"data", "tooLarge"}]_vars

\* a filter-only request with an offset, a limit and text was answered with
\* data while neither the vector store nor the embedding client existed
C20_Witness ==
  /\ deps = [embeddingsDB |-> FALSE, ollamaClient |-> FALSE]
  /\ reply.mode = "filter"
  /\ reply.input.semantic = Undefined
  /\ reply.input.includeText
  /\ reply.input.offset = 1
  /\ reply.input.limit = 1
  /\ reply.kind = "data"
  /\ Len(reply.results) = 1

\* the distances of a result list are in non-decreasing order
Ascending(query, results) ==
  \A j, k \in 1..Len(results) :
    j <= k => distance(query, results[j]) <= distance(query, results[k])

\* the rows of a result list are stored rows, each returned once
Stored(results) ==
  /\ \A k \in 1..Len(results) :
       \E j \in 1..Len(embeddings[results[k].title]) :
         embeddings[results[k].title][j].chunk_id = results[k].chunk_id
  /\ \A j, k \in 1..Len(results) : j # k => results[j] # results[k]

Touched == reply.calls[1][2]

\* C22: after any sequence of updateSyncStatus (and delete) calls, the
\* record of the title of the last updateSyncStatus call holds exactly the
\* last_modified, total_chunks, status and error_message of that call,
\* whatever record the call found; no call changes the record of a title it
\* was not made for, so each title's record is that of the most recent call
\* for it; a title has one record or none, and getIndexedTiddlersCount is
\* the number of titles that have one: an update of a recorded title leaves
\* it unchanged, an update of an unrecorded title adds one.
C22_Upsert ==
  reply.mode = "store" =>
    /\ \A u \in Titles \ {Touched} :
         getSyncStatus(DB(embeddings, syncStatus), u)
           = getSyncStatus(before[1], u)
    /\ getIndexedTiddlersCount(DB(embeddings, syncStatus))
         = Cardinality({u \in Titles :
                         getSyncStatus(DB(embeddings, syncStatus), u).exists})
    /\ reply.kind = "updateSyncStatus" =>
         LET a == reply.calls[1][3]
             r == getSyncStatus(DB(embeddings, syncStatus), Touched)
         IN  /\ r.exists
             /\ r.last_modified = a.lastModified
             /\ r.total_chunks = a.totalChunks
             /\ r.status = a.status
             /\ r.error_message = a.errorMessage
             /\ getIndexedTiddlersCount(DB(embeddings, syncStatus))
                  = getIndexedTiddlersCount(before[1])
                    + (IF getSyncStatus(before[1], Touched).exists
                       THEN 0 ELSE 1)

\* a record that held an error was updated by a call that differs from it
\* in every field, while the other title has a record too
C22_Witness ==
  /\ reply.kind = "updateSyncStatus"
  /\ Touched = "A"
  /\ getSyncStatus(before[1], "A")
       = [exists |-> TRUE, last_modified |-> "T1", last_indexed |-> 0,
          total_chunks |-> MaxParagraphs, status |-> "error",
          error_message |-> EmbeddingError]
  /\ reply.calls[1][3]
       = [lastModified |-> "T2", totalChunks |-> 0, status |-> "indexed",
          errorMessage |-> NoError]
  /\ getSyncStatus(DB(embeddings, syncStatus), "B").exists
  /\ getIndexedTiddlersCount(DB(embeddings, syncStatus)) = 2

\* C23: deleteEmbeddingsForTiddler(title) leaves no chunk row of that
\* title, leaves the chunk rows of every other title as it found them, also
\* when it found no row of the title, and applied once more it changes
\* nothing.
C23_DeleteIsLocalAndIdempotent ==
  reply.kind = "deleteEmbeddingsForTiddler" =>
    /\ embeddings[Touched] = <<>>
    /\ \A u \in Titles \ {Touched} :
         embeddings[u] = before[1].embeddings[u]
    /\ deleteEmbeddingsForTiddler(DB(embeddings, syncStatus), Touched)
         = DB(embeddings, syncStatus)
    /\ deleteEmbeddingsForTiddler(before[1], Touched)
         = DB(embeddings, syncStatus)

\* all the rows of a title were deleted while another title had rows
C23_Witness ==
  /\ reply.kind = "deleteEmbeddingsForTiddler"
  /\ Touched = "A"
  /\ Len(before[1].embeddings["A"]) = MaxParagraphs
  /\ Len(embeddings["B"]) = MaxParagraphs

\* the text, the limit and the chunks of the last chunkText call
ChunkedText == reply.calls[1][2]
ChunkLimit == reply.calls[1][3]
Chunks == reply.results

\* C24: every chunk chunkText returned for a non-empty text is a non-empty
\* string that neither starts nor ends with whitespace, and for the empty
\* text it returned the single chunk ''.
C24_ChunksTrimmed ==
  reply.kind = "chunkText" =>
    IF Len(ChunkedText) = 0 THEN Chunks = <<<<>>>>
    ELSE \A k \in 1..Len(Chunks) :
           /\ Len(Chunks[k]) > 0
           /\ Chunks[k][1] \notin Whitespace
           /\ Chunks[k][Len(Chunks[k])] \notin Whitespace

\* C25: every chunk chunkText returned has at most maxTokens tokens.
C25_ChunksBounded ==
  reply.kind = "chunkText" =>
    \A k \in 1..Len(Chunks) : Len(encode(Chunks[k])) <= ChunkLimit

\* the characters of a text that are not whitespace, in their order
content(s) == SelectSeq(s, LAMBDA c : c \notin Whitespace)

RECURSIVE joinedChunks(_, _)
joinedChunks(chunks, k) ==
  IF k > Len(chunks) THEN <<>>
  ELSE chunks[k] \o <<"\n", "\n">> \o joinedChunks(chunks, k + 1)

\* s can be read in t, in order, when characters of t are skipped
RECURSIVE within(_, _)
within(s, t) ==
  IF Len(s) = 0 THEN TRUE
  ELSE IF Len(t) = 0 THEN FALSE
  ELSE IF s[1] = t[1] THEN within(Tail(s), Tail(t))
  ELSE within(s, Tail(t))

\* C26: when chunkText returned several chunks, every character of the
\* text that is not whitespace can be read in the chunks, in the original
\* order: no paragraph and no sentence was dropped or cut short, whatever
\* was re-wrapped or added; and the chunks are those the same call returns
\* again.
C26_ContentPreserved ==
  (reply.kind = "chunkText" /\ Len(Chunks) > 1) =>
    /\ within(content(ChunkedText), content(joinedChunks(Chunks, 1)))
    /\ Chunks = OllamaClient_chunkText(ChunkedText, ChunkLimit)

\* the lookup of the handled request has been answered
LookedUp == reply.mode \in CrudTools /\ Len(reply.results) = 1

\* C27: an update_tiddler or delete_tiddler request whose title the
\* document store did not hold is answered with the 'not found' error, and
\* a create_tiddler request whose title it held with the 'already exists'
\* error; such a handler has called getTiddler and nothing else, and from
\* its answer on the documents change only by the writes of others.
C27_CrudPreconditions ==
  /\ [](LookedUp =>
         /\ (reply.mode # "create_tiddler" /\ ~reply.results[1].exists) =>
              /\ reply.kind = "notFound"
              /\ reply.isError
              /\ reply.calls = <<<<"getTiddler", reply.input.title>>>>
         /\ (reply.mode = "create_tiddler" /\ reply.results[1].exists) =>
              /\ reply.kind = "alreadyExists"
              /\ reply.isError
              /\ reply.calls = <<<<"getTiddler", reply.input.title>>>>)
  /\ [][(reply'.kind \in {"notFound", "alreadyExists"} /\ docs' # docs) =>
          edits' = edits + 1]_vars

\* an update_tiddler request for a title that another writer had deleted
\* was answered with 'not found' while the other document was still there
C27_Witness ==
  /\ reply.mode = "update_tiddler"
  /\ reply.kind = "notFound"
  /\ reply.input.title = "A"
  /\ ~docs["A"].exists
  /\ docs["B"].exists
  /\ edits = 1

\* C28: a title that has a status record keeps one through every step, the
\* steps of its own re-indexing included: getSyncStatus goes on returning a
\* record for it and getIndexedTiddlersCount never drops.
C28_StatusUpdatedInPlace ==
  [][/\ \A t \in Titles :
          getSyncStatus(DB(embeddings, syncStatus), t).exists =>
            getSyncStatus(DB(embeddings', syncStatus'), t).exists
     /\ getIndexedTiddlersCount(DB(embeddings', syncStatus')) >=
          getIndexedTiddlersCount(DB(embeddings, syncStatus))]_vars

\* the rows are every chunk of the one document version their first row
\* comes from
CompleteSet(rows) ==
  /\ OneVersion(rows)
  /\ AllChunksOf(rows, rows[1].chunk_text[1], rows[1].modified)

\* C29: between any two steps of the event loop, where a search can run,
\* each title has no chunk row at all or the complete chunk set of exactly
\* one version of its document: no partially inserted set is ever visible.
C29_NoPartialChunkSet ==
  \A t \in Titles : embeddings[t] = <<>> \/ CompleteSet(embeddings[t])

\* C30: whatever the order of start() and stop() calls, at most one interval
\* timer is scheduled at any time, and when the worker reports running =
\* false and no start() call is waiting for its health check, none is.
C30_TimerFollowsRunning ==
  /\ timers <= 1
  /\ (~isRunning /\ startsPending = 0) => timers = 0

\* the sentences of a paragraph that have any character
Sentences(para) ==
  SelectSeq(splitSentences(para, <<>>), LAMBDA sentence : Len(sentence) > 0)

\* C31: when chunkText splits a text, a paragraph whose own token count
\* exceeds maxTokens and that holds several sentences is split on sentence
\* boundaries, whether or not a chunk was being accumulated when it was
\* reached: it is never returned whole as one chunk.
C31_OversizedParagraphResplit ==
  (reply.kind = "chunkText" /\ Len(encode(ChunkedText)) > ChunkLimit) =>
    LET paragraphs == splitParagraphs(ChunkedText, <<>>)
    IN  \A k \in 1..Len(paragraphs) :
          (Len(encode(paragraphs[k])) > ChunkLimit
             /\ Len(Sentences(paragraphs[k])) >= 2) =>
            \A j \in 1..Len(Chunks) : Chunks[j] # trim(paragraphs[k])

\* C32: when no cycle is in progress, the chunk rows of each title carry the
\* ids 0, 1, ..., n-1 in chunk order, n being the number of chunks of the
\* version those rows were indexed from; and rows are only ever added for a
\* title that holds none, so no id of an earlier indexing survives and no
\* (title, chunk_id) pair occurs twice.
C32_ChunkIdsSequential ==
  /\ [](Quiescent =>
          \A t \in Titles :
            /\ \A k \in 1..Len(embeddings[t]) :
                 embeddings[t][k].chunk_id = k - 1
            /\ embeddings[t] # <<>> =>
                 Len(embeddings[t]) =
                   Len(chunkText(embeddings[t][1].chunk_text[1])))
  /\ [][\A t \in Titles :
          Len(embeddings'[t]) > Len(embeddings[t]) => embeddings[t] = <<>>]_vars

\* the getBaseUrl calls made so far
UrlCalls == http.calls

\* call k started a resolution, and the resolution gave a URL
Succeeded(k) == UrlCalls[k].via = "new" /\ UrlCalls[k].result \in Urls

\* C33: at most one base-URL resolution is in flight, and the pending marker
\* is set exactly while one is; a call that was handed the pending promise
\* receives the result of the resolution that was in flight when it came; no
\* resolution starts less than CACHE_TTL after one succeeded; a failed
\* resolution clears the marker and leaves the cache as it was, so that the
\* next call that finds no valid cache starts a new resolution.
C33_SingleResolution ==
  /\ [](/\ Cardinality(inFlight(http)) <= 1
        /\ http.pendingResolution # 0 <=> inFlight(http) # {}
        /\ http.baseUrlCache \in Urls \cup {NoUrl}
        /\ \A k \in 1..Len(UrlCalls) :
             /\ UrlCalls[k].via = "pending" =>
                  LET p == UrlCalls[k].promise
                  IN  /\ p < k
                      /\ UrlCalls[p].via = "new"
                      /\ UrlCalls[k].result = UrlCalls[p].result
                      /\ UrlCalls[p].settledAt >= 0 =>
                           UrlCalls[p].settledAt >= UrlCalls[k].at
             /\ UrlCalls[k].via = "new" =>
                  \A j \in 1..(k - 1) :
                    Succeeded(j) =>
                      UrlCalls[k].at - UrlCalls[j].settledAt >= CACHE_TTL)
  /\ [][/\ (\E p \in inFlight(http) : UrlCalls'[p].result = "rejected") =>
            /\ http'.pendingResolution = 0
            /\ http'.baseUrlCache = http.baseUrlCache
        /\ (Len(UrlCalls') > Len(UrlCalls) /\ inFlight(http) = {}
              /\ ~cacheValid(http)) =>
            UrlCalls'[Len(UrlCalls')].via = "new"]_vars

\* the first resolution failed; the second call started another, a third
\* call came while it was pending, and both received its URL
C33_Witness ==
  /\ Len(UrlCalls) = 3
  /\ UrlCalls[1].via = "new" /\ UrlCalls[1].result = "rejected"
  /\ UrlCalls[2].via = "new" /\ UrlCalls[2].result \in Urls
  /\ UrlCalls[3].via = "pending" /\ UrlCalls[3].result = UrlCalls[2].result
  /\ UrlCalls[3].at > UrlCalls[2].at
  /\ http.baseUrlCache = UrlCalls[2].result

\* a create_tiddler request has reported success
Created(r) == r.mode = "create_tiddler" /\ r.kind = "done"

\* C34: of two create_tiddler requests for one title that are handled at the
\* same time at most one reports success, and the write of a create_tiddler
\* request that succeeds never lands on a title that holds a tiddler.
C34_CreateIsExclusive ==
  /\ [](~(/\ Created(reply)
          /\ Created(other)
          /\ reply.input.title = other.input.title))
  /\ [][/\ (~Created(reply) /\ Created(reply')) =>
            ~docs[reply.input.title].exists
        /\ (~Created(other) /\ Created(other')) =>
            ~docs[other.input.title].exists]_vars

\* the titles of the listing
ListedTitles == {allTiddlers[k].title : k \in 1..Len(allTiddlers)}

\* invocation i ends its cycle normally in this step
CompletesNormally(i) ==
  outcome[i] = "running" /\ outcome'[i] \in {"completed", "nothing"}

\* C35: when a cycle completes normally, every title that has chunk rows or
\* a status record in the vector store is a title of that cycle's listing.
C35_NoOrphanRows ==
  [][\A i \in Slots :
       CompletesNormally(i) =>
         \A t \in Titles :
           (embeddings'[t] # <<>> \/ syncStatus'[t].exists) =>
             t \in ListedTitles]_vars

\* C36: a status record written by a cycle carries the normalized modified
\* token of the document version that the fetch of that attempt returned:
\* the version fetched and found without text for an 'empty' record, the
\* version fetched and embedded for an 'indexed' or 'error' record, also
\* when the document changed after the listing.
C36_TokenOfFetchedVersion ==
  [][\A i \in Slots, t \in Titles :
       /\ (FetchResult(i, t, "ok") /\ docs[t].exists
             /\ syncStatus'[t] # syncStatus[t] /\ syncStatus'[t].exists) =>
            syncStatus'[t].last_modified = normalizeModified(docs[t].modified)
       /\ (pc[i] = "batch" /\ proc[i][t].st = "embed"
             /\ syncStatus'[t] # syncStatus[t]) =>
            syncStatus'[t].last_modified =
              normalizeModified(proc[i][t].modified)]_vars

\* C37: the limit suggested by a size-exceeded diagnostic can be submitted:
\* it is at least 1 and at most 100, the bounds of the input schema, and it
\* is smaller than the number of results that overflowed.
C37_SuggestedLimitSubmittable ==
  reply.kind = "tooLarge" =>
    /\ reply.suggested >= 1
    /\ reply.suggested <= 100
    /\ reply.suggested < reply.matched

\* the titles the last search request called getTiddler for, in call order:
\* inside queryTiddlers in filter mode, by the handler itself otherwise
TextFetches ==
  IF reply.mode = "filter"
  THEN IF reply.kind \in {"data", "tooLarge"}
       THEN textFetches(reply.calls[1][2], reply.calls[1][3],
                        reply.calls[1][4], reply.calls[1][5])
       ELSE <<>>
  ELSE LET fetches == SelectSeq(reply.calls, LAMBDA c : c[1] = "getTiddler")
       IN  [k \in 1..Len(fetches) |-> fetches[k][2]]

\* elements offset+1 .. offset+limit of a list, as far as it goes
Survivors(all, offset, limit) ==
  LET from == IF offset = None THEN 0 ELSE offset
      rest == IF Len(all) > from THEN Len(all) - from ELSE 0
      n == IF limit = None \/ limit > rest THEN rest ELSE limit
  IN  [k \in 1..n |-> all[from + k]]

TitlesOf(results) == [k \in 1..Len(results) |-> results[k].title]

C39_PagesCoverMatches ==
  other # NoReply =>
    LET all == matching(other.filter, 1)
        upTo == IF other.pages * other.limit < Len(all)
                THEN other.pages * other.limit ELSE Len(all)
    IN  /\ TitlesOf(other.results) = SubSeq(all, 1, upTo)
        /\ (reply.kind = "data" /\ other.pages > 0) =>
             Len(reply.results) <= other.limit

\* the fields updateTiddlerObject decides on its own
Preserved == {"title", "created", "creator"}
Stamped == {"modified", "modifier"}
ServerManaged == {"revision", "bag"}

\* C40: the object updateTiddlerObject returns has the title, created and
\* creator of the current tiddler whatever the updates name; every other
\* field of the current tiddler that the updates do not name, unchanged;
\* every other field the updates name, with the updates' value; modified =
\* the timestamp generated at the call and modifier = the given user; no
\* revision and no bag; and no field beyond these.
C40_UpdateKeepsAndOverrides ==
  reply.kind = "updateTiddlerObject" =>
    LET current == reply.current
        updates == reply.updates
        result == reply.result
        decided == Preserved \cup Stamped \cup ServerManaged
    IN  /\ \A f \in Preserved : get(result, f) = get(current, f)
        /\ \A f \in DOMAIN current \ (DOMAIN updates \cup decided) :
             f \in DOMAIN result /\ result[f] = current[f]
        /\ \A f \in DOMAIN updates \ decided :
             f \in DOMAIN result /\ result[f] = updates[f]
        /\ get(result, "modified") = reply.timestamp
        /\ get(result, "modifier") = reply.modifier
        /\ \A f \in ServerManaged : get(result, f) = Undefined
        /\ DOMAIN result \subseteq DOMAIN current \cup DOMAIN updates \cup decided

\* a stored tiddler with content, server fields and a custom field was
\* updated with a new text and with a title, a created and a revision of
\* the caller's: the text is new, type, tags and the custom field are the
\* old ones, and so are title and created
C40_Witness ==
  /\ reply.kind = "updateTiddlerObject"
  /\ DOMAIN reply.current = Fields
  /\ DOMAIN reply.updates = {"title", "created", "text", "revision"}
  /\ reply.updates["text"] = "new"
  /\ reply.updates["title"] = "new"
  /\ reply.result["text"] = "new"
  /\ reply.result["title"] = "old"
  /\ reply.result["created"] = "old"
  /\ reply.result["type"] = "old"
  /\ reply.result["tags"] = "old"
  /\ reply.result["custom"] = "old"
  /\ reply.result["modified"] = "T2"
  /\ reply.result["revision"] = Undefined

====
